---- MODULE Spec2Model ----
(***************************************************************************)
(* Bowling-document extraction core of woodfamily-ai: the normalized       *)
(* record store (packages/core/storage/sqlite.py), the fetch-state cache   *)
(* and the inbound queries of packages/core/bowling.                       *)
(*                                                                         *)
(* Strings are sequences of one-character strings.  NBSP stands for the    *)
(* no-break space U+00A0.  A Python None / SQL NULL string is the value    *)
(* None, a one-element sequence that no string of the alphabet equals.     *)
(***************************************************************************)
EXTENDS Integers, Sequences, FiniteSets, TLC

VARIABLES
    stats,      \* table bowling_stats: rows in rowid order (committed image)
    matches,    \* table bowling_matches: rows in rowid order (committed image)
    fetches,    \* table bowling_fetches: league_key -> row or NoFetch
    files,      \* cache directory: league_key of the cache path -> document or NoFile
    now,        \* datetime.now(), in days
    calls,      \* inbound queries made so far
    last,       \* observation of the most recent call: inputs, effects, result
    txn         \* the write transaction a refresh has open: its position and its
                \* uncommitted image of the table

vars == <<stats, matches, fetches, files, now, calls, last, txn>>

(***************************************************************************)
(* Strings                                                                 *)
(***************************************************************************)
None == <<"<None>">>
NBSP == "~"
Upper == {"A", "B", "F", "G", "L", "N", "O", "Q", "S", "T", "U"}
Whitespace == {" ", NBSP}

\* str.lower() / SQL lower() on one character of the alphabet
LowerChar(c) ==
    CASE c = "A" -> "a"
      [] c = "B" -> "b"
      [] c = "F" -> "f"
      [] c = "G" -> "g"
      [] c = "L" -> "l"
      [] c = "N" -> "n"
      [] c = "O" -> "o"
      [] c = "Q" -> "q"
      [] c = "S" -> "s"
      [] c = "T" -> "t"
      [] c = "U" -> "u"
      [] OTHER -> c

Lower(s) == [i \in 1..Len(s) |-> LowerChar(s[i])]

\* value.replace(U+00A0, " ")
ReplaceNbsp(s) == [i \in 1..Len(s) |-> IF s[i] = NBSP THEN " " ELSE s[i]]

RECURSIVE LStrip(_, _)
LStrip(s, drop) ==
    IF s # <<>> /\ Head(s) \in drop THEN LStrip(Tail(s), drop) ELSE s

RECURSIVE RStrip(_, _)
RStrip(s, drop) ==
    IF s # <<>> /\ s[Len(s)] \in drop THEN RStrip(SubSeq(s, 1, Len(s) - 1), drop) ELSE s

\* str.strip(): leading and trailing whitespace (U+00A0 is whitespace to Python)
PyStrip(s) == RStrip(LStrip(s, Whitespace), Whitespace)

\* SQL trim(X): leading and trailing spaces only
SqlTrim(s) == RStrip(LStrip(s, {" "}), {" "})

\* " ".join(s.split()): runs of whitespace collapse to one space, ends dropped
RECURSIVE Collapse(_)
Collapse(s) ==
    IF s = <<>> THEN <<>>
    ELSE IF Head(s) \in Whitespace
         THEN LET rest == LStrip(s, Whitespace)
              IN  IF rest = <<>> THEN <<>> ELSE <<" ">> \o Collapse(rest)
         ELSE <<Head(s)>> \o Collapse(Tail(s))

SplitJoin(s) == Collapse(LStrip(s, Whitespace))

\* sqlite.py:879  _normalize_query_value
_normalize_query_value(value) == SplitJoin(Lower(PyStrip(ReplaceNbsp(value))))

\* X LIKE '%sub%' on a non-NULL X (the alphabet has no % or _ wildcard)
StartsWith(s, prefix) == Len(s) >= Len(prefix) /\ SubSeq(s, 1, Len(prefix)) = prefix
Contains(s, sub) ==
    \E i \in 1..(Len(s) - Len(sub) + 1) : SubSeq(s, i, i + Len(sub) - 1) = sub

\* Python truthiness of an Optional[str]
Truthy(v) == v # None /\ v # <<>>

\* DEFAULT_CACHE_KEY of the five query modules
SourceKeys ==
    {"bopo_averages", "bopo_standings", "bopo_schedule",
     "casco_monday_stats", "casco_monday_bayside"}
NoFetch == [nofetch |-> TRUE]
NoFile == [nofile |-> TRUE]
NoTxn == [pc |-> "idle"]

(***************************************************************************)
(* Integers.  A Python int is [big |-> b, val |-> v], denoting             *)
(* b * 2^63 + v with |v| small, so that the signed 64-bit limits of        *)
(* _coerce_sqlite_int are exact: min_int = -2^63, max_int = 2^63 - 1.      *)
(* NoneInt is Python None / SQL NULL.                                      *)
(***************************************************************************)
NoneInt == [none |-> TRUE]
IntOf(n) == [big |-> 0, val |-> n]
PyLess(a, b) == a.big < b.big \/ (a.big = b.big /\ a.val < b.val)
min_int == [big |-> -1, val |-> 0]
max_int == [big |-> 1, val |-> -1]

\* sqlite.py:869  _coerce_sqlite_int
_coerce_sqlite_int(value) ==
    IF value = NoneInt THEN NoneInt
    ELSE IF PyLess(value, min_int) \/ PyLess(max_int, value) THEN NoneInt
    ELSE value

(***************************************************************************)
(* Record store: bowling_stats and bowling_matches                         *)
(***************************************************************************)
\* DELETE FROM <table> WHERE league_key = ?
DeleteKey(table, league_key) == SelectSeq(table, LAMBDA r : r.league_key # league_key)

\* sqlite.py:657-686  one INSERT INTO bowling_stats (the row's own league_key is written)
InsertStat(table, stat) ==
    Append(table, [stat EXCEPT !.average = _coerce_sqlite_int(stat.average)])

\* sqlite.py:762-781  one INSERT INTO bowling_matches
InsertMatch(table, match) == Append(table, match)

RECURSIVE InsertStats(_, _)
InsertStats(table, rows) ==
    IF rows = <<>> THEN table ELSE InsertStats(InsertStat(table, Head(rows)), Tail(rows))

RECURSIVE InsertMatches(_, _)
InsertMatches(table, rows) ==
    IF rows = <<>> THEN table ELSE InsertMatches(InsertMatch(table, Head(rows)), Tail(rows))

\* sqlite.py:653  save_bowling_stats, as committed by "with self._connect() as conn"
Mut_SaveStatsNoDelete(table, league_key, rows) == InsertStats(table, rows)
save_bowling_stats(table, league_key, rows) ==
    InsertStats(DeleteKey(table, league_key), rows)

\* sqlite.py:758  save_bowling_matches
save_bowling_matches(table, league_key, rows) ==
    InsertMatches(DeleteKey(table, league_key), rows)

\* Byte values of the alphabet (SQLite BINARY collation compares bytes)
Byte(c) ==
    CASE c = " " -> 32 [] c = "/" -> 47 [] c = "0" -> 48 [] c = "1" -> 49
      [] c = "2" -> 50 [] c = "6" -> 54 [] c = "9" -> 57 [] c = ":" -> 58
      [] c = "B" -> 66 [] c = "F" -> 70 [] c = "G" -> 71
      [] c = "O" -> 79 [] c = "Q" -> 81 [] c = "U" -> 85 [] c = "a" -> 97 [] c = "b" -> 98
      [] c = "d" -> 100 [] c = "e" -> 101 [] c = "f" -> 102 [] c = "g" -> 103
      [] c = "i" -> 105 [] c = "k" -> 107 [] c = "l" -> 108 [] c = "m" -> 109 [] c = "n" -> 110
      [] c = "o" -> 111 [] c = "q" -> 113 [] c = "r" -> 114 [] c = "s" -> 115
      [] c = "u" -> 117 [] c = "w" -> 119
      [] c = NBSP -> 194

\* a < b for two non-NULL TEXT values
RECURSIVE TextLess(_, _)
TextLess(a, b) ==
    IF b = <<>> THEN FALSE
    ELSE IF a = <<>> THEN TRUE
    ELSE IF Head(a) = Head(b) THEN TextLess(Tail(a), Tail(b))
    ELSE Byte(Head(a)) < Byte(Head(b))

\* ORDER BY x ASC on a nullable TEXT column: NULL sorts first
NullableLess(a, b) ==
    IF b = None THEN FALSE ELSE IF a = None THEN TRUE ELSE TextLess(a, b)

\* ORDER BY team_name ASC, player_name ASC
StatBefore(r, q) ==
    \/ NullableLess(r.team_name, q.team_name)
    \/ r.team_name = q.team_name /\ NullableLess(r.player_name, q.player_name)

\* ORDER BY match_date DESC, match_time DESC
MatchBefore(r, q) ==
    \/ NullableLess(q.match_date, r.match_date)
    \/ r.match_date = q.match_date /\ NullableLess(q.match_time, r.match_time)

\* rows in ORDER BY order; rows that compare equal stay in rowid order
RECURSIVE InsertStatOrdered(_, _)
InsertStatOrdered(sorted, r) ==
    IF sorted = <<>> THEN <<r>>
    ELSE IF StatBefore(r, Head(sorted)) THEN <<r>> \o sorted
    ELSE <<Head(sorted)>> \o InsertStatOrdered(Tail(sorted), r)

RECURSIVE OrderStats(_)
OrderStats(rows) ==
    IF rows = <<>> THEN <<>>
    ELSE InsertStatOrdered(OrderStats(SubSeq(rows, 1, Len(rows) - 1)), rows[Len(rows)])

RECURSIVE InsertMatchOrdered(_, _)
InsertMatchOrdered(sorted, r) ==
    IF sorted = <<>> THEN <<r>>
    ELSE IF MatchBefore(r, Head(sorted)) THEN <<r>> \o sorted
    ELSE <<Head(sorted)>> \o InsertMatchOrdered(Tail(sorted), r)

RECURSIVE OrderMatches(_)
OrderMatches(rows) ==
    IF rows = <<>> THEN <<>>
    ELSE InsertMatchOrdered(OrderMatches(SubSeq(rows, 1, Len(rows) - 1)), rows[Len(rows)])

\* sqlite.py:698-703  the exact WHERE clause
ExactStat(r, league_key, team_name, player_name) ==
    /\ r.league_key = league_key
    /\ Truthy(team_name) =>
          r.team_name # None /\ Lower(SqlTrim(r.team_name)) = _normalize_query_value(team_name)
    /\ Truthy(player_name) =>
          r.player_name # None /\ Lower(SqlTrim(r.player_name)) = _normalize_query_value(player_name)

\* sqlite.py:725-737  the LIKE WHERE clause
Mut_FuzzyAlways(r, league_key, team_name, player_name) == r.league_key = league_key
FuzzyStat(r, league_key, team_name, player_name) ==
    /\ r.league_key = league_key
    /\ Truthy(player_name) =>
          r.player_name # None /\ Contains(Lower(r.player_name), _normalize_query_value(player_name))
    /\ Truthy(team_name) =>
          r.team_name # None /\ Contains(Lower(r.team_name), _normalize_query_value(team_name))

\* sqlite.py:688  list_bowling_stats
list_bowling_stats(table, league_key, team_name, player_name) ==
    LET rows == OrderStats(SelectSeq(table,
                    LAMBDA r : ExactStat(r, league_key, team_name, player_name)))
    IN  IF rows # <<>> \/ (~Truthy(player_name) /\ ~Truthy(team_name))
        THEN rows
        ELSE OrderStats(SelectSeq(table,
                 LAMBDA r : FuzzyStat(r, league_key, team_name, player_name)))

\* sqlite.py:783  list_bowling_matches
list_bowling_matches(table, league_key, team_name, date_from, date_to) ==
    OrderMatches(SelectSeq(table,
        LAMBDA r : /\ r.league_key = league_key
                   /\ Truthy(team_name) => (r.team_a = team_name \/ r.team_b = team_name)
                   /\ Truthy(date_from) =>
                         r.match_date # None /\ ~TextLess(r.match_date, date_from)
                   /\ Truthy(date_to) =>
                         r.match_date # None /\ ~TextLess(date_to, r.match_date)))

(***************************************************************************)
(* Names and rows used as inputs                                           *)
(***************************************************************************)
Gino == <<"G", "i", "n", "o">>
GinoLower == <<"g", "i", "n", "o">>
GinoQ == <<"G", "i", "n", "o", " ", "Q">>
GinoNbsp == <<"G", "i", "n", "o", NBSP>>
Gin == <<"G", "i", "n">>
BeerFrame == <<"B", "e", "e", "r", " ", "F", "r", "a", "m", "e">>
BeerFrameWide == <<"B", "e", "e", "r", " ", " ", "F", "r", "a", "m", "e">>
Beer == <<"b", "e", "e", "r">>
Oddballs == <<"O", "d", "d", "b", "a", "l", "l", "s">>

MaxRows == 2

SeqsUpTo(S, n) == UNION {[1..k -> S] : k \in 0..n}
Range(s) == {s[i] : i \in 1..Len(s)}
Count(x, s) == Cardinality({i \in 1..Len(s) : s[i] = x})
SameBag(s, t) ==
    /\ Len(s) = Len(t)
    /\ \A x \in Range(s) \cup Range(t) : Count(x, s) = Count(x, t)

\* storage/base.py:136  BowlingStatState (handicap, wins, losses, high_game and
\* high_series are stored like average; points, updated_at like created_at)
StatRow(key, team, player, avg, raw) ==
    [league_key |-> key, team_name |-> team, player_name |-> player,
     average |-> avg, raw |-> raw, created_at |-> 0]

\* storage/base.py:153  BowlingMatchState
MatchRow(key, date, time, a, b, raw) ==
    [league_key |-> key, match_date |-> date, match_time |-> time,
     team_a |-> a, team_b |-> b, raw |-> raw, created_at |-> 0]

Jan2 == <<"1", "/", "2">>
Jan9 == <<"1", "/", "9">>
SixPm == <<"6", ":", "0", "0">>

StoreKeys == {"casco_monday_stats", "bopo_standings"}

\* Rows the callers of save_bowling_stats build for a key (league_key = the key);
\* an average of -2^63 - 1 or 2^63 is what int(float(...)) of a model-supplied
\* number can give
StatUniverse(key) ==
    IF key = "casco_monday_stats"
    THEN {StatRow(key, BeerFrame, Gino, IntOf(156), "a"),
          StatRow(key, BeerFrame, GinoQ, [big |-> -1, val |-> -1], "b")}
    ELSE {StatRow(key, Oddballs, None, [big |-> 1, val |-> 0], "d")}

\* Rows the callers of save_bowling_matches build; a standings key holds no match
MatchUniverse(key) ==
    IF key = "casco_monday_stats"
    THEN {MatchRow(key, Jan2, SixPm, BeerFrame, Oddballs, "a"),
          MatchRow(key, Jan9, SixPm, Oddballs, BeerFrame, "b")}
    ELSE {}

(***************************************************************************)
(* SpecStore: the record store driven directly through its interface       *)
(***************************************************************************)
StoreInit ==
    /\ txn = NoTxn
    /\ stats = <<>>
    /\ matches = <<>>
    /\ fetches = [key \in SourceKeys |-> NoFetch]
    /\ files = [key \in SourceKeys |-> NoFile]
    /\ now = 0
    /\ calls = 0
    /\ last = [op |-> "init"]

StoreSaveStats ==
    /\ UNCHANGED txn
    /\ \E key \in StoreKeys : \E rows \in SeqsUpTo(StatUniverse(key), MaxRows) :
        /\ stats' = save_bowling_stats(stats, key, rows)
        /\ last' = [op |-> "save_bowling_stats", league_key |-> key, rows |-> rows]
        /\ UNCHANGED <<matches, fetches, files, now, calls>>

StoreSaveMatches ==
    /\ UNCHANGED txn
    /\ \E key \in StoreKeys : \E rows \in SeqsUpTo(MatchUniverse(key), MaxRows) :
        /\ matches' = save_bowling_matches(matches, key, rows)
        /\ last' = [op |-> "save_bowling_matches", league_key |-> key, rows |-> rows]
        /\ UNCHANGED <<stats, fetches, files, now, calls>>

StoreListStats ==
    /\ UNCHANGED txn
    /\ \E key \in StoreKeys :
        /\ last' = [op |-> "list_bowling_stats", league_key |-> key,
                    rows |-> list_bowling_stats(stats, key, None, None)]
        /\ UNCHANGED <<stats, matches, fetches, files, now, calls>>

StoreListMatches ==
    /\ UNCHANGED txn
    /\ \E key \in StoreKeys :
        /\ last' = [op |-> "list_bowling_matches", league_key |-> key,
                    rows |-> list_bowling_matches(matches, key, None, None, None)]
        /\ UNCHANGED <<stats, matches, fetches, files, now, calls>>

StoreNext == StoreSaveStats \/ StoreSaveMatches \/ StoreListStats \/ StoreListMatches

SpecStore == StoreInit /\ [][StoreNext]_vars

(***************************************************************************)
(* SpecQuery: list_bowling_stats with filters, on every table that         *)
(* save_bowling_stats can leave for one key                                *)
(***************************************************************************)
QueryKey == "casco_monday_stats"

QueryUniverse(key) ==
    IF key = QueryKey
    THEN {StatRow(key, BeerFrame, Gino, IntOf(156), "a"),
          StatRow(key, BeerFrame, GinoQ, IntOf(149), "b"),
          StatRow(key, BeerFrameWide, GinoLower, IntOf(143), "c")}
    ELSE {StatRow(key, BeerFrame, Gino, IntOf(600), "d")}

TeamQueries == {None, <<>>, BeerFrame, Beer}
PlayerQueries == {None, GinoNbsp, GinoQ, Gin}

QueryInit ==
    /\ txn = NoTxn
    /\ \E rows \in SeqsUpTo(QueryUniverse(QueryKey), MaxRows),
          other \in SeqsUpTo(QueryUniverse("bopo_standings"), 1) :
          stats = save_bowling_stats(
                      save_bowling_stats(<<>>, "bopo_standings", other), QueryKey, rows)
    /\ matches = <<>>
    /\ fetches = [key \in SourceKeys |-> NoFetch]
    /\ files = [key \in SourceKeys |-> NoFile]
    /\ now = 0
    /\ calls = 0
    /\ last = [op |-> "init"]

QueryListStats ==
    /\ UNCHANGED txn
    /\ \E key \in StoreKeys, team \in TeamQueries, player \in PlayerQueries :
        /\ last' = [op |-> "list_bowling_stats", league_key |-> key,
                    team_name |-> team, player_name |-> player,
                    rows |-> list_bowling_stats(stats, key, team, player)]
        /\ UNCHANGED <<stats, matches, fetches, files, now, calls>>

QueryNext == QueryListStats

SpecQuery == QueryInit /\ [][QueryNext]_vars

(***************************************************************************)
(* C1: replace semantics of the record store (SpecStore)                   *)
(***************************************************************************)
\* the rows as the INSERT binds them
Stored(rows) ==
    [i \in 1..Len(rows) |-> [rows[i] EXCEPT !.average = _coerce_sqlite_int(@)]]

OutOfRange(r) == r.average # NoneInt /\ _coerce_sqlite_int(r.average) = NoneInt

\* C1 as stated: after save(key, rows) the unfiltered query of the key returns
\* exactly rows, for stat rows and for match rows, and saving the same rows again
\* leaves the query unchanged.
C1_ReplaceExact ==
    /\ last.op = "save_bowling_stats" =>
          LET q == list_bowling_stats(stats, last.league_key, None, None)
          IN  /\ SameBag(q, last.rows)
              /\ list_bowling_stats(save_bowling_stats(stats, last.league_key, last.rows),
                                    last.league_key, None, None) = q
    /\ last.op = "save_bowling_matches" =>
          LET q == list_bowling_matches(matches, last.league_key, None, None, None)
          IN  /\ SameBag(q, last.rows)
              /\ list_bowling_matches(save_bowling_matches(matches, last.league_key, last.rows),
                                      last.league_key, None, None, None) = q

\* C1 amended: after save(key, rows) the unfiltered query of the key returns rows
\* with every integer field outside the signed 64-bit range replaced by null
\* (match rows unchanged), one result row per saved row whatever was stored
\* before, and saving the same rows again leaves the query unchanged.
C1_ReplaceStored ==
    /\ last.op = "save_bowling_stats" =>
          LET q == list_bowling_stats(stats, last.league_key, None, None)
          IN  /\ SameBag(q, Stored(last.rows))
              /\ list_bowling_stats(save_bowling_stats(stats, last.league_key, last.rows),
                                    last.league_key, None, None) = q
    /\ last.op = "save_bowling_matches" =>
          LET q == list_bowling_matches(matches, last.league_key, None, None, None)
          IN  /\ SameBag(q, last.rows)
              /\ list_bowling_matches(save_bowling_matches(matches, last.league_key, last.rows),
                                      last.league_key, None, None, None) = q

\* a save of two rows, one of them out of range, over a key that keeps other keys' rows
C1_Witness ==
    /\ last.op = "save_bowling_stats"
    /\ Len(last.rows) = MaxRows
    /\ \E i \in 1..Len(last.rows) : OutOfRange(last.rows[i])
    /\ \E i \in 1..Len(last.rows) : ~OutOfRange(last.rows[i])
    /\ \E i \in 1..Len(stats) : stats[i].league_key # last.league_key
    /\ matches # <<>>

(***************************************************************************)
(* C9, C10: filtered stat queries (SpecQuery)                              *)
(***************************************************************************)
QueryRows(key) == SelectSeq(stats, LAMBDA r : r.league_key = key)

NameIs(r, name) == r.player_name # None /\ r.player_name = name

\* C9 as stated: a query for player "Gino Q" whose exact match set is empty
\* returns the stored record whose player_name is "Gino".
C9_PartialNameFound ==
    ( /\ last.op = "list_bowling_stats"
      /\ last.player_name = GinoQ
      /\ ~Truthy(last.team_name)
      /\ \E i \in 1..Len(stats) :
            stats[i].league_key = last.league_key /\ NameIs(stats[i], Gino)
      /\ \A i \in 1..Len(stats) :
            stats[i].league_key = last.league_key => ~NameIs(stats[i], GinoQ) )
    => \E i \in 1..Len(last.rows) : NameIs(last.rows[i], Gino)

\* both sides whitespace-normalized and case-folded, as the claim words it
SpecExact(r, team_name, player_name) ==
    /\ Truthy(team_name) =>
          r.team_name # None
          /\ _normalize_query_value(r.team_name) = _normalize_query_value(team_name)
    /\ Truthy(player_name) =>
          r.player_name # None
          /\ _normalize_query_value(r.player_name) = _normalize_query_value(player_name)

\* the stored value lowercased and trimmed of spaces, the query fully normalized
StoredExact(r, team_name, player_name) ==
    /\ Truthy(team_name) =>
          r.team_name # None
          /\ Lower(SqlTrim(r.team_name)) = _normalize_query_value(team_name)
    /\ Truthy(player_name) =>
          r.player_name # None
          /\ Lower(SqlTrim(r.player_name)) = _normalize_query_value(player_name)

\* the lowercased stored value contains the normalized query
StoredContains(r, team_name, player_name) ==
    /\ Truthy(team_name) =>
          r.team_name # None
          /\ Contains(Lower(r.team_name), _normalize_query_value(team_name))
    /\ Truthy(player_name) =>
          r.player_name # None
          /\ Contains(Lower(r.player_name), _normalize_query_value(player_name))

NoRow == [norow |-> TRUE]
Unknown == <<"U", "n", "k", "n", "o", "w", "n">>

\* a bowler dictionary; src stands for raw_row / raw_line / the model's extra keys
Bowler(name, team, avg, src) == [bowler |-> name, team |-> team, average |-> avg, src |-> src]

TableRow(kind, name, avg) == [kind |-> kind, name |-> name, average |-> avg]
Line(size, kind, name, avg) == [size |-> size, kind |-> kind, name |-> name, average |-> avg]

Ret(rows, trace, raised) == [rows |-> rows, trace |-> trace, raised |-> raised]

\* casco_stats.py:571  _to_str on a string or None
_to_str(value) ==
    IF value = None THEN None
    ELSE LET cleaned == PyStrip(ReplaceNbsp(value))
         IN  IF cleaned = <<>> THEN None ELSE cleaned

\* casco_stats.py:88-118  the loop over table rows, current_team carried forward
RECURSIVE ParseTableRows(_, _)
ParseTableRows(rows, current_team) ==
    IF rows = <<>> THEN <<>>
    ELSE LET row == Head(rows)
         IN  IF row.kind = "team" THEN ParseTableRows(Tail(rows), row.name)
             ELSE IF row.kind = "bowler" /\ current_team # None
                     /\ row.name # None /\ row.average # NoneInt
                  THEN <<Bowler(row.name, current_team, row.average, "raw_row")>>
                       \o ParseTableRows(Tail(rows), current_team)
                  ELSE ParseTableRows(Tail(rows), current_team)

TeamAverageFloor == IntOf(300)

\* casco_stats.py:244  _parse_stats_text
RECURSIVE ParseTextLines(_, _)
ParseTextLines(lines, current_team) ==
    IF lines = <<>> THEN <<>>
    ELSE LET line == Head(lines)
         IN  IF line.kind = "header" \/ line.name = None \/ line.average = NoneInt
             THEN ParseTextLines(Tail(lines), current_team)
             ELSE IF ~PyLess(line.average, TeamAverageFloor)
                  THEN ParseTextLines(Tail(lines), line.name)
                  ELSE IF current_team # None
                       THEN <<Bowler(line.name, current_team, line.average, "raw_line")>>
                            \o ParseTextLines(Tail(lines), current_team)
                       ELSE ParseTextLines(Tail(lines), current_team)

_parse_stats_text(text) == ParseTextLines(text, None)

\* casco_stats.py:325  _filter_bowler_rows
Mut_FilterAllowsTeamAverage(rows) ==
    SelectSeq(rows, LAMBDA row :
        /\ _to_str(row.bowler) # None
        /\ _to_str(row.team) # None
        /\ row.average # NoneInt
        /\ Lower(_to_str(row.bowler)) # Lower(_to_str(row.team))
        /\ ~PyLess(TeamAverageFloor, row.average))
_filter_bowler_rows(rows) ==
    SelectSeq(rows, LAMBDA row :
        /\ _to_str(row.bowler) # None
        /\ _to_str(row.team) # None
        /\ row.average # NoneInt
        /\ Lower(_to_str(row.bowler)) # Lower(_to_str(row.team))
        /\ PyLess(row.average, TeamAverageFloor))

\* len(text) of the lines joined by "\n"
RECURSIVE TextLen(_)
TextLen(lines) ==
    IF lines = <<>> THEN 0
    ELSE Head(lines).size + (IF Len(lines) > 1 THEN 1 ELSE 0) + TextLen(Tail(lines))

StatsChunkLimit == 8000

\* casco_stats.py:405  _chunk_text: the loop over lines
RECURSIVE ChunkLines(_, _, _, _)
ChunkLines(lines, current, current_len, limit) ==
    IF lines = <<>> THEN (IF current # <<>> THEN <<current>> ELSE <<>>)
    ELSE LET line == Head(lines)
         IN  IF current_len + line.size + 1 > limit /\ current # <<>>
             THEN <<current>> \o ChunkLines(Tail(lines), <<line>>, line.size + 1, limit)
             ELSE ChunkLines(Tail(lines), Append(current, line),
                             current_len + line.size + 1, limit)

_chunk_text(text, limit) ==
    IF TextLen(text) <= limit THEN <<text>> ELSE ChunkLines(text, <<>>, 0, limit)

\* what one model call returns for a reply kind (casco_stats.py:283-322); the
\* rows a well-formed reply holds are the model's reading of the document
LlmReplies ==
    {"rows", "team_rows", "mixed_rows", "empty", "not_json", "object", "timeout", "http_error"}
LlmRaises(reply) ==
    CASE reply = "timeout" -> "socket.timeout"
      [] reply = "http_error" -> "RuntimeError"
      [] OTHER -> ""

LlmBowlers ==
    <<Bowler(GinoLower, Unknown, IntOf(149), "llm"), Bowler(GinoQ, Oddballs, IntOf(151), "llm")>>
LlmTeamRows == <<Bowler(BeerFrame, BeerFrame, IntOf(612), "llm")>>
\* a reply that mixes bowlers with rows the filter is there for: no name, no
\* team, a team read as a bowler, an average of 300, no average
LlmMixedRows ==
    <<Bowler(None, BeerFrame, IntOf(150), "llm"),
      Bowler(GinoQ, Oddballs, IntOf(299), "llm"),
      Bowler(Gino, None, IntOf(150), "llm"),
      Bowler(Lower(BeerFrame), BeerFrame, IntOf(150), "llm"),
      Bowler(GinoLower, Oddballs, IntOf(300), "llm"),
      Bowler(Gin, BeerFrame, NoneInt, "llm"),
      Bowler(Gino, BeerFrame, IntOf(156), "llm")>>

_extract_stats_with_llm_once(reply) ==
    CASE reply = "rows" -> LlmBowlers
      [] reply = "team_rows" -> LlmTeamRows
      [] reply = "mixed_rows" -> LlmMixedRows
      [] OTHER -> <<>>

\* the per-chunk loop of _extract_stats_with_llm (casco_stats.py:276-279)
RECURSIVE LlmChunks(_, _)
LlmChunks(chunks, reply) ==
    IF chunks = <<>> THEN Ret(<<>>, <<>>, "")
    ELSE IF LlmRaises(reply) # "" THEN Ret(<<>>, <<"llm_chunk">>, LlmRaises(reply))
    ELSE LET rest == LlmChunks(Tail(chunks), reply)
         IN  Ret(_filter_bowler_rows(_extract_stats_with_llm_once(reply)) \o rest.rows,
                 <<"llm_chunk">> \o rest.trace, rest.raised)

\* casco_stats.py:270  _extract_stats_with_llm
Mut_LlmChunksFirst(text, once, chunk) == LlmChunks(_chunk_text(text, StatsChunkLimit), chunk)
_extract_stats_with_llm(text, once, chunk) ==
    IF LlmRaises(once) # "" THEN Ret(<<>>, <<"llm_once">>, LlmRaises(once))
    ELSE LET parsed == _filter_bowler_rows(_extract_stats_with_llm_once(once))
         IN  IF parsed # <<>> THEN Ret(parsed, <<"llm_once">>, "")
             ELSE LET combined == LlmChunks(_chunk_text(text, StatsChunkLimit), chunk)
                  IN  Ret(_filter_bowler_rows(combined.rows),
                          <<"llm_once">> \o combined.trace, combined.raised)

\* index of the last row of rows whose bowler has this key, 0 if none
LastWithKey(rows, key) ==
    LET hits == {i \in 1..Len(rows) :
                    _to_str(rows[i].bowler) # None /\ Lower(_to_str(rows[i].bowler)) = key}
    IN  IF hits = {} THEN 0 ELSE CHOOSE i \in hits : \A j \in hits : j <= i

\* casco_stats.py:358-366  one model row merged over the local row of its name
MergeRow(local, row) ==
    [local EXCEPT
        !.bowler = IF row.bowler = None THEN @ ELSE row.bowler,
        !.team = IF row.team = None \/ row.team = Unknown \/ _to_str(row.team) = None
                 THEN @ ELSE row.team,
        !.average = IF row.average = NoneInt THEN @ ELSE row.average,
        !.src = row.src]

RECURSIVE MergeAll(_, _)
MergeAll(local, llm_rows) ==
    IF llm_rows = <<>> THEN local
    ELSE LET row == Head(llm_rows)
             key == IF _to_str(row.bowler) = None THEN None
                    ELSE Lower(_to_str(row.bowler))
         IN  IF key = None THEN MergeAll(local, Tail(llm_rows))
             ELSE IF key = Lower(_to_str(local.bowler))
                  THEN MergeAll(MergeRow(local, row), Tail(llm_rows))
                  ELSE MergeAll(local, Tail(llm_rows))

\* casco_stats.py:341  _merge_with_local_stats: local_map keeps, per lowercased
\* name, the last local row, in first-insertion order
_merge_with_local_stats(local_rows, llm_rows) ==
    IF local_rows = <<>> THEN _filter_bowler_rows(llm_rows)
    ELSE LET keyed == {i \in 1..Len(local_rows) : _to_str(local_rows[i].bowler) # None}
             key(i) == Lower(_to_str(local_rows[i].bowler))
             first == {i \in keyed : \A j \in keyed : key(j) = key(i) => i <= j}
             slot(i) == MergeAll(local_rows[LastWithKey(local_rows, key(i))], llm_rows)
             merged == [i \in 1..Len(local_rows) |->
                           IF i \in first THEN slot(i) ELSE NoRow]
         IN  _filter_bowler_rows(SelectSeq(merged, LAMBDA r : r # NoRow))

\* casco_stats.py:75  _parse_stats_pdf
Mut_ParseLlmBeforeText(doc, once, chunk) ==
    LET llm == _extract_stats_with_llm(doc.text, once, chunk)
    IN  Ret(llm.rows, <<"extract_rows", "extract_text">> \o llm.trace \o <<"parse_text">>,
            llm.raised)
_parse_stats_pdf(doc, once, chunk) ==
    LET parsed == ParseTableRows(doc.table, None)
    IN  IF doc.table # <<>> /\ parsed # <<>> THEN Ret(parsed, <<"extract_rows">>, "")
        ELSE LET local == _parse_stats_text(doc.text)
                 llm == _extract_stats_with_llm(doc.text, once, chunk)
                 trace == <<"extract_rows", "extract_text", "parse_text">> \o llm.trace
             IN  IF llm.raised # "" THEN Ret(<<>>, trace, llm.raised)
                 ELSE Ret(_merge_with_local_stats(local, llm.rows), trace, "")

(***************************************************************************)
(* SpecParse: _parse_stats_pdf applied to bounded documents and replies    *)
(***************************************************************************)
MaxLines == 3

ParseTables ==
    {<<>>,
     <<TableRow("header", None, NoneInt)>>,
     <<TableRow("team", BeerFrame, IntOf(612)), TableRow("bowler", Gino, IntOf(156))>>}

ParseLines ==
    {Line(3000, "name", BeerFrame, IntOf(612)),
     Line(6000, "name", GinoLower, IntOf(143)),
     Line(9000, "junk", None, NoneInt)}

ParseInit ==
    /\ txn = NoTxn
    /\ stats = <<>>
    /\ matches = <<>>
    /\ fetches = [key \in SourceKeys |-> NoFetch]
    /\ files = [key \in SourceKeys |-> NoFile]
    /\ now = 0
    /\ calls = 0
    /\ \E table \in ParseTables, text \in SeqsUpTo(ParseLines, MaxLines),
          once \in LlmReplies, chunk \in LlmReplies :
          last = [op |-> "input", doc |-> [table |-> table, text |-> text],
                  once |-> once, chunk |-> chunk]

ParseStatsPdf ==
    /\ UNCHANGED txn
    /\ last.op = "input"
    /\ last' = [op |-> "_parse_stats_pdf", doc |-> last.doc,
                once |-> last.once, chunk |-> last.chunk,
                result |-> _parse_stats_pdf(last.doc, last.once, last.chunk)]
    /\ UNCHANGED <<stats, matches, fetches, files, now, calls>>

ParseNext == ParseStatsPdf

SpecParse == ParseInit /\ [][ParseNext]_vars

Positions(trace, event) == {i \in 1..Len(trace) : trace[i] = event}

\* C5: in _parse_stats_pdf, when the document yields no table rows, text-line
\* parsing is attempted before any model call; and when text-line parsing also
\* yields no rows, the model is called exactly once on the single-shot text,
\* before any per-chunk call.
C5_FallbackOrdering ==
    (last.op = "_parse_stats_pdf" /\ last.doc.table = <<>>) =>
        LET trace == last.result.trace
            llm == Positions(trace, "llm_once") \cup Positions(trace, "llm_chunk")
        IN  /\ Cardinality(Positions(trace, "parse_text")) = 1
            /\ \A i \in Positions(trace, "parse_text") : \A j \in llm : i < j
            /\ _parse_stats_text(last.doc.text) = <<>> =>
                  /\ Cardinality(Positions(trace, "llm_once")) = 1
                  /\ \A i \in Positions(trace, "llm_once") :
                        \A j \in Positions(trace, "llm_chunk") : i < j

\* no tables, no text-line rows, an empty single-shot reply, then one call per chunk
C5_Witness ==
    /\ last.op = "_parse_stats_pdf"
    /\ last.doc.table = <<>>
    /\ _parse_stats_text(last.doc.text) = <<>>
    /\ Cardinality(Positions(last.result.trace, "llm_chunk")) >= 2
    /\ last.result.rows # <<>>

(***************************************************************************)
(* Fetch-state cache (sqlite.py:822-866 and the _should_refresh /          *)
(* _upsert_fetch_state of each query module).  A URL is its sequence of    *)
(* path segments; a timestamp is the day it was taken.                     *)
(***************************************************************************)
RefreshDays == 7

UrlA == <<"files", "a.pdf">>
UrlMoved == <<"archive", "a.pdf">>
UrlB == <<"files", "b.pdf">>

\* datetime.isoformat() / datetime.fromisoformat(); a last_fetch_at column
\* (TEXT NOT NULL, sqlite.py:146) can also hold the empty string or a text
\* that fromisoformat rejects with ValueError
IsoFormat(day) == [iso |-> day]
FromIsoFormat(text) == text.iso
EmptyStamp == [text |-> ""]
BadStamp == [text |-> "yesterday"]
ParsesAsIso(text) == "iso" \in DOMAIN text

\* storage/base.py:197  BowlingFetchState
FetchState(league_key, last_fetch_at, stats_url, schedule_url, standings_url) ==
    [league_key |-> league_key, last_fetch_at |-> last_fetch_at, stats_url |-> stats_url,
     schedule_url |-> schedule_url, standings_url |-> standings_url,
     file_path |-> league_key]

\* sqlite.py:847  get_bowling_fetch
get_bowling_fetch(table, league_key) == table[league_key]

\* sqlite.py:822  upsert_bowling_fetch
upsert_bowling_fetch(table, fetch) == [table EXCEPT ![fetch.league_key] = fetch]

\* os.path.basename of a truthy value, else None
_basename(value) == IF ~Truthy(value) THEN None ELSE <<value[Len(value)]>>

\* the URL column each module records and compares
UrlColumn(league_key) ==
    CASE league_key \in {"bopo_averages", "casco_monday_stats"} -> "stats_url"
      [] league_key = "bopo_schedule" -> "schedule_url"
      [] OTHER -> "standings_url"

\* _should_refresh of the five query modules (e.g. bopo_averages.py:252)
Mut_RefreshAtInterval(fetch_state, url) ==
    fetch_state = NoFetch
    \/ now - FromIsoFormat(fetch_state.last_fetch_at) >= RefreshDays
    \/ _basename(fetch_state[UrlColumn(fetch_state.league_key)]) # _basename(url)
_should_refresh(fetch_state, url) ==
    IF fetch_state = NoFetch THEN TRUE
    ELSE IF fetch_state.last_fetch_at = EmptyStamp THEN TRUE
    ELSE IF ~ParsesAsIso(fetch_state.last_fetch_at) THEN TRUE
    ELSE IF now - FromIsoFormat(fetch_state.last_fetch_at) > RefreshDays THEN TRUE
    ELSE IF _basename(fetch_state[UrlColumn(fetch_state.league_key)]) # _basename(url)
         THEN TRUE
         ELSE FALSE

\* _upsert_fetch_state of the five query modules (e.g. bopo_averages.py:280)
_upsert_fetch_state(table, cache_key, url) ==
    upsert_bowling_fetch(table,
        FetchState(cache_key, IsoFormat(now),
                   IF UrlColumn(cache_key) = "stats_url" THEN url ELSE None,
                   IF UrlColumn(cache_key) = "schedule_url" THEN url ELSE None,
                   IF UrlColumn(cache_key) = "standings_url" THEN url ELSE None))

(***************************************************************************)
(* Inbound queries.  Each action is one call: its arguments and what its   *)
(* collaborators answer (the resolved URL, the HTTP response, the          *)
(* document behind the bytes, the model's reply) are chosen with \E; last  *)
(* records the arguments, the collaborator calls in order and the result   *)
(* or the exception that reached the caller.                               *)
(***************************************************************************)
MaxCalls == 2

\* no response: the call did not go to the network
NoResponse == [status_code |-> 0]

Observed(op, key, args, should, trace, result) ==
    [op |-> op, league_key |-> key, args |-> args, should_refresh |-> should,
     trace |-> trace, result |-> result, fetched |-> NoResponse]

Result(status, error, cached, rows, schedule) ==
    [status |-> status, error |-> error, cached |-> cached, rows |-> rows,
     schedule |-> schedule]
Raised(exc) == Result("raised", exc, FALSE, <<>>, <<>>)

Args(team_name, player_name, force_refresh, url) ==
    [team_name |-> team_name, player_name |-> player_name,
     force_refresh |-> force_refresh, url |-> url]

\* HTTP responses: status code, body bytes (one character per byte, xFF a byte
\* that is not valid UTF-8) and the declared content type
Response(status_code, content, content_type) ==
    [status_code |-> status_code, content |-> content, content_type |-> content_type]
PdfMagic == <<"%", "P", "D", "F">>
PdfType == <<"a", "p", "p", "l", "i", "c", "a", "t", "i", "o", "n", "/", "p", "d", "f">>
HtmlType == <<"t", "e", "x", "t", "/", "h", "t", "m", "l">>

\* the responses the inbound queries meet: a PDF declared as HTML, an HTML page
\* declared as a PDF, and a server error
FetchResponses ==
    {Response(200, <<"%", "P", "D", "F", "-", "1">>, HtmlType),
     Response(200, <<"<", "h", "t", "m", "l">>, PdfType),
     Response(500, <<"<", "h", "t", "m", "l">>, HtmlType)}

\* fetcher.py:40  _looks_like_pdf
Mut_LooksLikePdfByType(content, content_type) ==
    StartsWith(content, PdfMagic) \/ Contains(Lower(content_type), PdfType)
_looks_like_pdf(content, content_type) ==
    IF StartsWith(content, PdfMagic) THEN TRUE
    ELSE IF Contains(Lower(content_type), PdfType) THEN FALSE
    ELSE FALSE

\* bytes.decode("utf-8", errors="replace"): an invalid byte becomes U+FFFD
Decode(bytes) == [i \in 1..Len(bytes) |-> IF bytes[i] = "xFF" THEN "uFFFD" ELSE bytes[i]]

\* fetcher.py:14  content[:200]
PreviewBytes == 200

\* fetcher.py:8  fetch_pdf: the exception it raises for a response ("" if none)
\* with the payload of the exception, and the bytes it returns
fetch_pdf(url, response) ==
    IF response.status_code >= 400
    THEN [raised |-> "HTTPStatusError", payload |-> [status_code |-> response.status_code],
          content |-> <<>>]
    ELSE IF ~_looks_like_pdf(response.content, response.content_type)
    THEN [raised |-> "RuntimeError: expected_pdf_response",
          payload |-> [url |-> url, content_type |-> response.content_type,
                       preview |-> Decode(SubSeq(response.content, 1,
                                       IF Len(response.content) < PreviewBytes
                                       THEN Len(response.content) ELSE PreviewBytes))],
          content |-> <<>>]
    ELSE [raised |-> "", payload |-> [url |-> url], content |-> response.content]

\* what a call that went to the network observed: the response and fetch_pdf's outcome
Fetched(response, observed) ==
    [observed EXCEPT !.fetched = [response |-> response,
                                  outcome |-> fetch_pdf(observed.args.url, response)]]

Stamp(row) == [row EXCEPT !.created_at = IsoFormat(now)]

\* casco_stats.py:551 / bopo_averages.py:334  _stat_to_dict
_stat_to_dict(stat) ==
    [bowler |-> stat.player_name, team |-> stat.team_name, average |-> stat.average,
     raw |-> stat.raw]

\* casco_stats.py:539 / bopo_averages.py:322  _load_cached_bowlers; found is
\* FALSE where the code returns None
_load_cached_bowlers(table, cache_key, team_name, player_name) ==
    LET listed == list_bowling_stats(table, cache_key, team_name, player_name)
    IN  [found |-> listed # <<>>,
         rows |-> [i \in 1..Len(listed) |-> _stat_to_dict(listed[i])]]

\* casco_stats.py:513  _save_bowler_stats
_save_bowler_stats(table, cache_key, bowlers) ==
    save_bowling_stats(table, cache_key,
        [i \in 1..Len(bowlers) |->
            Stamp(StatRow(cache_key, _to_str(bowlers[i].team), _to_str(bowlers[i].bowler),
                          bowlers[i].average, bowlers[i]))])

\* bopo_averages.py:344  _to_int of the float average that _to_float produced:
\* int("156.0") raises ValueError, so every non-None average becomes None
AveragesToInt(value) == NoneInt

\* bopo_averages.py:296  _save_bowler_stats
SaveAverages(table, cache_key, bowlers) ==
    save_bowling_stats(table, cache_key,
        [i \in 1..Len(bowlers) |->
            Stamp(StatRow(cache_key, _to_str(bowlers[i].team), _to_str(bowlers[i].bowler),
                          AveragesToInt(bowlers[i].average), bowlers[i]))])

TeamArgs == {None, BeerFrame, Oddballs}
PlayerArgs == {None, GinoQ}
QueryReplies == {"rows", "empty", "object", "timeout"}
ResolvedUrls == {None, UrlA, UrlMoved, UrlB}
ConfiguredUrls == {UrlA, UrlB}

\* documents behind the bytes of a Casco statistics PDF
StatsDocs ==
    {[table |-> <<TableRow("team", BeerFrame, IntOf(612)), TableRow("bowler", Gino, IntOf(156))>>,
      text |-> <<>>],
     [table |-> <<>>,
      text |-> <<Line(30, "name", BeerFrame, IntOf(612)), Line(20, "name", GinoLower, IntOf(143))>>]}

\* casco_stats.py:32  get_casco_monday_bowlers
get_casco_monday_bowlers ==
    /\ UNCHANGED txn
    /\ calls < MaxCalls
    /\ calls' = calls + 1
    /\ \E team_name \in TeamArgs, player_name \in PlayerArgs, force_refresh \in BOOLEAN,
          stats_url \in ConfiguredUrls :
          LET key == "casco_monday_stats"
              args == Args(team_name, player_name, force_refresh, stats_url)
              fetch_state == get_bowling_fetch(fetches, key)
              should == _should_refresh(fetch_state, stats_url)
              cached == _load_cached_bowlers(stats, key, team_name, player_name)
              obs(trace, result) ==
                  Observed("get_casco_monday_bowlers", key, args, should, trace, result)
          IN  IF ~force_refresh /\ ~should /\ cached.found
              THEN /\ last' = obs(<<>>, Result("ok", "", TRUE, cached.rows, <<>>))
                   /\ UNCHANGED <<stats, matches, fetches, files, now>>
              ELSE \E response \in FetchResponses :
                   IF fetch_pdf(args.url, response).raised # ""
                   THEN /\ last' = Fetched(response, obs(<<"fetch_pdf">>,
                                    Raised(fetch_pdf(args.url, response).raised)))
                        /\ UNCHANGED <<stats, matches, fetches, files, now>>
                   ELSE \E doc \in StatsDocs, reply \in QueryReplies :
                        LET parsed == _parse_stats_pdf(doc, reply, reply)
                            saved == _save_bowler_stats(stats, key, parsed.rows)
                            filtered == _load_cached_bowlers(saved, key, team_name, player_name)
                            fetched == <<"fetch_pdf", "write_file">> \o parsed.trace
                        IN  IF parsed.raised # ""
                            THEN /\ files' = [files EXCEPT ![key] = doc]
                                 /\ last' = Fetched(response, obs(fetched, Raised(parsed.raised)))
                                 /\ UNCHANGED <<stats, matches, fetches, now>>
                            ELSE /\ files' = [files EXCEPT ![key] = doc]
                                 /\ stats' = saved
                                 /\ fetches' = _upsert_fetch_state(fetches, key, stats_url)
                                 /\ last' = Fetched(response, obs(fetched \o <<"save_stats", "upsert_fetch">>,
                                                Result("ok", "", FALSE, filtered.rows, <<>>)))
                                 /\ UNCHANGED <<matches, now>>

\* documents behind the bytes of a BoPo averages PDF: the rows _parse_averages_pdf keeps
AveragesDocs ==
    {[rows |-> <<>>],
     [rows |-> <<Bowler(Gino, BeerFrame, IntOf(156), "table")>>]}

\* get_bopo_averages recording a fetch although no URL was resolved
Mut_AveragesNotFoundUpserts ==
    /\ UNCHANGED txn
    /\ calls < MaxCalls
    /\ calls' = calls + 1
    /\ \E team_name \in TeamArgs, player_name \in PlayerArgs, averages_url \in ResolvedUrls :
          LET key == "bopo_averages"
              args == Args(team_name, player_name, FALSE, averages_url)
              fetch_state == get_bowling_fetch(fetches, key)
              should == _should_refresh(fetch_state, averages_url)
              cached == _load_cached_bowlers(stats, key, team_name, player_name)
              obs(trace, result) ==
                  Observed("get_bopo_averages", key, args, should, trace, result)
          IN  IF ~Truthy(averages_url)
              THEN /\ last' = obs(<<>>, Result("error", "averages_url_not_found", FALSE,
                                               <<>>, <<>>))
                   /\ fetches' = _upsert_fetch_state(fetches, key, averages_url)
                   /\ UNCHANGED <<stats, matches, files, now>>
              ELSE IF ~should /\ cached.found
              THEN /\ last' = obs(<<>>, Result("ok", "", TRUE, cached.rows, <<>>))
                   /\ UNCHANGED <<stats, matches, fetches, files, now>>
              ELSE \E response \in FetchResponses :
                   IF fetch_pdf(args.url, response).raised # ""
                   THEN /\ last' = Fetched(response, obs(<<"fetch_pdf">>,
                                    Raised(fetch_pdf(args.url, response).raised)))
                        /\ UNCHANGED <<stats, matches, fetches, files, now>>
                   ELSE \E doc \in AveragesDocs :
                        LET saved == SaveAverages(stats, key, doc.rows)
                            filtered == _load_cached_bowlers(saved, key, team_name, player_name)
                        IN  /\ files' = [files EXCEPT ![key] = doc]
                            /\ stats' = saved
                            /\ fetches' = _upsert_fetch_state(fetches, key, averages_url)
                            /\ last' = Fetched(response, obs(<<"fetch_pdf", "write_file", "extract_rows",
                                             "save_stats", "upsert_fetch">>,
                                           Result("ok", "", FALSE, filtered.rows, <<>>)))
                            /\ UNCHANGED <<matches, now>>

\* bopo_averages.py:28  get_bopo_averages
get_bopo_averages ==
    /\ UNCHANGED txn
    /\ calls < MaxCalls
    /\ calls' = calls + 1
    /\ \E team_name \in TeamArgs, player_name \in PlayerArgs, averages_url \in ResolvedUrls :
          LET key == "bopo_averages"
              args == Args(team_name, player_name, FALSE, averages_url)
              fetch_state == get_bowling_fetch(fetches, key)
              should == _should_refresh(fetch_state, averages_url)
              cached == _load_cached_bowlers(stats, key, team_name, player_name)
              obs(trace, result) ==
                  Observed("get_bopo_averages", key, args, should, trace, result)
          IN  IF ~Truthy(averages_url)
              THEN /\ last' = obs(<<>>, Result("error", "averages_url_not_found", FALSE,
                                               <<>>, <<>>))
                   /\ UNCHANGED <<stats, matches, fetches, files, now>>
              ELSE IF ~should /\ cached.found
              THEN /\ last' = obs(<<>>, Result("ok", "", TRUE, cached.rows, <<>>))
                   /\ UNCHANGED <<stats, matches, fetches, files, now>>
              ELSE \E response \in FetchResponses :
                   IF fetch_pdf(args.url, response).raised # ""
                   THEN /\ last' = Fetched(response, obs(<<"fetch_pdf">>,
                                    Raised(fetch_pdf(args.url, response).raised)))
                        /\ UNCHANGED <<stats, matches, fetches, files, now>>
                   ELSE \E doc \in AveragesDocs :
                        LET saved == SaveAverages(stats, key, doc.rows)
                            filtered == _load_cached_bowlers(saved, key, team_name, player_name)
                        IN  /\ files' = [files EXCEPT ![key] = doc]
                            /\ stats' = saved
                            /\ fetches' = _upsert_fetch_state(fetches, key, averages_url)
                            /\ last' = Fetched(response, obs(<<"fetch_pdf", "write_file", "extract_rows",
                                             "save_stats", "upsert_fetch">>,
                                           Result("ok", "", FALSE, filtered.rows, <<>>)))
                            /\ UNCHANGED <<matches, now>>

\* the clock between calls, in days since the first query (the code reads only
\* differences of times): it moves to one day in, to the refresh interval or to
\* the day after it; a tick returns nothing to observe
ClockDays == {1, RefreshDays, RefreshDays + 1}
Tick ==
    /\ UNCHANGED txn
    /\ 0 < calls /\ calls < MaxCalls
    /\ \E day \in ClockDays :
          /\ now < day
          /\ now' = day
    /\ last' = [op |-> "tick"]
    /\ UNCHANGED <<stats, matches, fetches, files, calls>>

Mon == <<"m", "o", "n">>
DayArgs == {None, Mon}

Standing(day, team, points) == [day |-> day, team |-> team, points |-> points]
Match(date, time, team_a, team_b) ==
    [date |-> date, time |-> time, team_a |-> team_a, team_b |-> team_b]

StandingsChunkLimit == 7000

\* documents behind the bytes of a BoPo standings PDF: the page text
StandingsDocs ==
    {[text |-> <<Line(40, "name", BeerFrame, NoneInt)>>],
     [text |-> <<Line(5000, "name", BeerFrame, NoneInt), Line(5000, "name", Oddballs, NoneInt)>>]}

LlmStandings == <<Standing(Mon, BeerFrame, IntOf(12)), Standing(Mon, BeerFrame, IntOf(12))>>

\* bopo_standings.py:396  _dedupe_standings, key (day, team) stripped and lowercased
RECURSIVE DedupeStandings(_, _)
DedupeStandings(rows, seen) ==
    IF rows = <<>> THEN <<>>
    ELSE LET row == Head(rows)
             key == <<Lower(PyStrip(IF Truthy(row.day) THEN row.day ELSE <<>>)),
                      Lower(PyStrip(IF Truthy(row.team) THEN row.team ELSE <<>>))>>
         IN  IF key \in seen THEN DedupeStandings(Tail(rows), seen)
             ELSE <<row>> \o DedupeStandings(Tail(rows), seen \cup {key})

_dedupe_standings(rows) == DedupeStandings(rows, {})

\* bopo_standings.py:159  _extract_standings_with_llm_chunks; replies[i] is
\* the model's answer to the call for chunk i.  A timeout is caught inside the
\* loop and the loop goes on to the next chunk, any other exception leaves the
\* loop, a reply that is a JSON object extends the list with its keys and
\* _dedupe_standings then fails on a str.  The trace holds each call and,
\* after it, whether it timed out or returned rows.
RECURSIVE StandingsChunks(_, _)
StandingsChunks(chunks, replies) ==
    IF chunks = <<>> THEN Ret(<<>>, <<>>, "")
    ELSE IF Head(replies) = "http_error"
    THEN Ret(<<>>, <<"llm_chunk">>, LlmRaises(Head(replies)))
    ELSE LET rest == StandingsChunks(Tail(chunks), Tail(replies))
             outcome == CASE Head(replies) = "timeout" -> <<"llm_timeout">>
                          [] Head(replies) = "rows" -> <<"llm_rows">>
                          [] OTHER -> <<>>
         IN  Ret((IF Head(replies) = "rows" THEN LlmStandings ELSE <<>>) \o rest.rows,
                 <<"llm_chunk">> \o outcome \o rest.trace, rest.raised)

_extract_standings_with_llm_chunks(text, replies) ==
    LET chunks == _chunk_text(text, StandingsChunkLimit)
        combined == StandingsChunks(chunks, replies)
    IN  IF combined.raised # "" THEN combined
        ELSE IF \E i \in 1..Len(chunks) : replies[i] = "object"
        THEN Ret(<<>>, combined.trace, "AttributeError")
        ELSE Ret(_dedupe_standings(combined.rows), combined.trace, "")

\* the model's answers to the calls of one extraction, chunk by chunk
StandingsReplies ==
    {<<reply, reply>> : reply \in QueryReplies}
        \cup {<<"rows", "timeout">>, <<"timeout", "rows">>}

\* bopo_standings.py:270  _save_standings
SaveBopoStandings(table, cache_key, standings) ==
    save_bowling_stats(table, cache_key,
        [i \in 1..Len(standings) |->
            Stamp(StatRow(cache_key, _to_str(standings[i].team), None, NoneInt,
                          standings[i]))])

\* bopo_standings.py:296  _load_cached_standings with _stat_to_dict (312): the day is
\* read from raw, the team from the column
LoadBopoStandings(table, cache_key, day, team_name) ==
    LET listed == list_bowling_stats(table, cache_key, team_name, None)
        rows == [i \in 1..Len(listed) |->
                    Standing(listed[i].raw.day, listed[i].team_name, listed[i].raw.points)]
    IN  [found |-> listed # <<>>,
         rows |-> IF Truthy(day)
                  THEN SelectSeq(rows, LAMBDA row :
                           Lower(IF Truthy(row.day) THEN row.day ELSE <<>>)
                               = Lower(PyStrip(day)))
                  ELSE rows]

\* bopo_standings.py:31  get_bopo_standings
get_bopo_standings ==
    /\ UNCHANGED txn
    /\ calls < MaxCalls
    /\ calls' = calls + 1
    /\ \E day \in DayArgs, team_name \in TeamArgs, standings_url \in ResolvedUrls :
          LET key == "bopo_standings"
              args == [Args(team_name, None, FALSE, standings_url) EXCEPT !.player_name = day]
              fetch_state == get_bowling_fetch(fetches, key)
              should == _should_refresh(fetch_state, standings_url)
              cached == LoadBopoStandings(stats, key, day, team_name)
              obs(trace, result) ==
                  Observed("get_bopo_standings", key, args, should, trace, result)
          IN  IF ~Truthy(standings_url)
              THEN /\ last' = obs(<<>>, Result("error", "standings_url_not_found", FALSE,
                                               <<>>, <<>>))
                   /\ UNCHANGED <<stats, matches, fetches, files, now>>
              ELSE IF ~should /\ cached.found
              THEN /\ last' = obs(<<>>, Result("ok", "", TRUE, cached.rows, <<>>))
                   /\ UNCHANGED <<stats, matches, fetches, files, now>>
              ELSE \E response \in FetchResponses :
                   IF fetch_pdf(args.url, response).raised # ""
                   THEN /\ last' = Fetched(response, obs(<<"fetch_pdf">>,
                                    Raised(fetch_pdf(args.url, response).raised)))
                        /\ UNCHANGED <<stats, matches, fetches, files, now>>
                   ELSE \E doc \in StandingsDocs, replies \in StandingsReplies :
                        LET llm == _extract_standings_with_llm_chunks(doc.text, replies)
                            saved == SaveBopoStandings(stats, key, llm.rows)
                            filtered == LoadBopoStandings(saved, key, day, team_name)
                            fetched == <<"fetch_pdf", "write_file", "extract_text">>
                                           \o llm.trace
                        IN  IF llm.raised # ""
                            THEN /\ files' = [files EXCEPT ![key] = doc]
                                 /\ last' = Fetched(response, obs(fetched, Raised(llm.raised)))
                                 /\ UNCHANGED <<stats, matches, fetches, now>>
                            ELSE /\ files' = [files EXCEPT ![key] = doc]
                                 /\ stats' = saved
                                 /\ fetches' = _upsert_fetch_state(fetches, key, standings_url)
                                 /\ last' = Fetched(response, obs(fetched \o <<"save_stats", "upsert_fetch">>,
                                                Result("ok", "", FALSE, filtered.rows, <<>>)))
                                 /\ UNCHANGED <<matches, now>>

\* str(value or "")
StrOrEmpty(value) == IF Truthy(value) THEN value ELSE <<>>

\* bopo_schedule.py:183  _save_matches
_save_matches(table, cache_key, rows) ==
    save_bowling_matches(table, cache_key,
        [i \in 1..Len(rows) |->
            Stamp(MatchRow(cache_key, StrOrEmpty(rows[i].date), StrOrEmpty(rows[i].time),
                           StrOrEmpty(rows[i].team_a), StrOrEmpty(rows[i].team_b), rows[i]))])

\* bopo_schedule.py:203  _load_cached_matches: the columns overlaid with raw
_load_cached_matches(table, cache_key) ==
    LET listed == list_bowling_matches(table, cache_key, None, None, None)
    IN  [found |-> listed # <<>>,
         rows |-> [i \in 1..Len(listed) |-> listed[i].raw]]

\* bopo_schedule.py:222  _filter_matches / casco_monday.py:1342  _filter_schedule
_filter_matches(rows, team_name) ==
    LET lowered == Lower(PyStrip(team_name))
    IN  SelectSeq(rows, LAMBDA row :
            \/ Contains(Lower(StrOrEmpty(row.team_a)), lowered)
            \/ Contains(Lower(StrOrEmpty(row.team_b)), lowered))

\* the model repeats a match that the page text shows twice
LlmMatches ==
    <<Match(Jan2, SixPm, BeerFrame, Oddballs), Match(Jan2, SixPm, BeerFrame, Oddballs)>>

\* bopo_schedule.py:233  _extract_team_schedule_with_llm, then the loop of
\* _save_matches over what it returned: a JSON object is returned as it is and
\* match.get fails on its keys
ScheduleWithLlm(reply) ==
    IF LlmRaises(reply) # "" THEN Ret(<<>>, <<"llm_once">>, LlmRaises(reply))
    ELSE IF reply = "object" THEN Ret(<<>>, <<"llm_once">>, "AttributeError")
    ELSE Ret(IF reply = "rows" THEN LlmMatches ELSE <<>>, <<"llm_once">>, "")

\* documents behind the bytes of a BoPo schedule PDF
ScheduleDocs == {[text |-> <<Line(40, "name", BeerFrame, NoneInt)>>]}

\* bopo_schedule.py:233  _extract_team_schedule_with_llm with a model that
\* does what the prompt asks: "all matches that include the team"
TeamScheduleOfDoc(doc, team_name, reply) ==
    IF LlmRaises(reply) # "" THEN Ret(<<>>, <<"llm_once">>, LlmRaises(reply))
    ELSE IF reply = "object" THEN Ret(<<>>, <<"llm_once">>, "AttributeError")
    ELSE Ret(IF reply = "rows"
             THEN SelectSeq(doc.matches, LAMBDA match :
                      match.team_a = team_name \/ match.team_b = team_name)
             ELSE <<>>,
             <<"llm_once">>, "")

\* what the model returns for a document: the team's matches where the
\* document lists its matches, else a reply that does not depend on the team
ExtractTeamSchedule(doc, team_name, reply) ==
    IF "matches" \in DOMAIN doc THEN TeamScheduleOfDoc(doc, team_name, reply)
    ELSE ScheduleWithLlm(reply)

\* bopo_schedule.py:30  get_bopo_schedule, called for one of teams, the PDF
\* being one of docs
get_bopo_schedule_with(teams, docs) ==
    /\ UNCHANGED txn
    /\ calls < MaxCalls
    /\ calls' = calls + 1
    /\ \E team_name \in teams, schedule_url \in ResolvedUrls :
          LET key == "bopo_schedule"
              args == Args(team_name, None, FALSE, schedule_url)
              fetch_state == get_bowling_fetch(fetches, key)
              should == _should_refresh(fetch_state, schedule_url)
              cached == _load_cached_matches(matches, key)
              obs(trace, result) ==
                  Observed("get_bopo_schedule", key, args, should, trace, result)
          IN  IF ~Truthy(team_name)
              THEN /\ last' = obs(<<>>, Result("error", "team_name_required", FALSE,
                                               <<>>, <<>>))
                   /\ UNCHANGED <<stats, matches, fetches, files, now>>
              ELSE IF ~Truthy(schedule_url)
              THEN /\ last' = obs(<<>>, Result("error", "schedule_url_not_found", FALSE,
                                               <<>>, <<>>))
                   /\ UNCHANGED <<stats, matches, fetches, files, now>>
              ELSE IF ~should /\ cached.found
              THEN /\ last' = obs(<<>>, Result("ok", "", TRUE, <<>>,
                                               _filter_matches(cached.rows, team_name)))
                   /\ UNCHANGED <<stats, matches, fetches, files, now>>
              ELSE \E response \in FetchResponses :
                   IF fetch_pdf(args.url, response).raised # ""
                   THEN /\ last' = Fetched(response, obs(<<"fetch_pdf">>,
                                    Raised(fetch_pdf(args.url, response).raised)))
                        /\ UNCHANGED <<stats, matches, fetches, files, now>>
                   ELSE \E doc \in docs, reply \in QueryReplies :
                        LET llm == ExtractTeamSchedule(doc, team_name, reply)
                            fetched == <<"fetch_pdf", "write_file", "extract_text">>
                                           \o llm.trace
                        IN  IF llm.raised # ""
                            THEN /\ files' = [files EXCEPT ![key] = doc]
                                 /\ last' = Fetched(response, obs(fetched, Raised(llm.raised)))
                                 /\ UNCHANGED <<stats, matches, fetches, now>>
                            ELSE /\ files' = [files EXCEPT ![key] = doc]
                                 /\ matches' = _save_matches(matches, key, llm.rows)
                                 /\ fetches' = _upsert_fetch_state(fetches, key, schedule_url)
                                 /\ last' = Fetched(response,
                                        obs(fetched \o <<"save_matches", "upsert_fetch">>,
                                            Result("ok", "", FALSE, <<>>, llm.rows)))
                                 /\ UNCHANGED <<stats, now>>

get_bopo_schedule == get_bopo_schedule_with(TeamArgs, ScheduleDocs)

\* documents behind the bytes of the Casco Monday Bayside PDF: the rows of its
\* standings table and of its schedule; the second one has no readable table
BaysideDocs ==
    {[standings |-> <<Standing(None, BeerFrame, IntOf(12)), Standing(None, Oddballs, IntOf(9))>>,
      schedule |-> <<Match(Jan2, SixPm, BeerFrame, Oddballs)>>],
     [standings |-> <<>>, schedule |-> <<Match(Jan9, SixPm, Oddballs, BeerFrame)>>]}

LlmBayside == <<Standing(None, BeerFrameWide, IntOf(15))>>

\* casco_monday.py:236  _extract_standings_with_llm: a reply that is not a JSON
\* array gives []
BaysideStandingsWithLlm(reply) ==
    IF LlmRaises(reply) # "" THEN Ret(<<>>, <<"llm_once">>, LlmRaises(reply))
    ELSE Ret(IF reply = "rows" THEN LlmBayside ELSE <<>>, <<"llm_once">>, "")

\* casco_monday.py:60-62 and 98-101: the standings of the PDF's table, the
\* model's when the table gave none
BaysideStandings(doc, reply) ==
    IF doc.standings # <<>> THEN Ret(doc.standings, <<"extract_rows">>, "")
    ELSE LET llm == BaysideStandingsWithLlm(reply)
         IN  Ret(llm.rows, <<"extract_rows">> \o llm.trace, llm.raised)

\* casco_monday.py:1256  _save_standings
_save_standings(table, cache_key, standings) ==
    save_bowling_stats(table, cache_key,
        [i \in 1..Len(standings) |->
            Stamp(StatRow(cache_key, _to_str(standings[i].team), None, NoneInt,
                          standings[i]))])

\* casco_monday.py:1282  _save_schedule
_save_schedule(table, cache_key, schedule) ==
    save_bowling_matches(table, cache_key,
        [i \in 1..Len(schedule) |->
            Stamp(MatchRow(cache_key, _to_str(schedule[i].date), _to_str(schedule[i].time),
                           _to_str(schedule[i].team_a), _to_str(schedule[i].team_b),
                           schedule[i]))])

\* casco_monday.py:1304  _load_cached_standings
_load_cached_standings(table, cache_key, team_name) ==
    LET listed == list_bowling_stats(table, cache_key, team_name, None)
    IN  [i \in 1..Len(listed) |->
            Standing(None, listed[i].team_name, listed[i].raw.points)]

\* casco_monday.py:1318  _load_cached_schedule
_load_cached_schedule(table, cache_key, team_name) ==
    LET listed == list_bowling_matches(table, cache_key, team_name, None, None)
    IN  [i \in 1..Len(listed) |-> listed[i].raw]

\* casco_monday.py:1335  _filter_team
_filter_team(rows, team_name) ==
    IF ~Truthy(team_name) THEN rows
    ELSE SelectSeq(rows, LAMBDA row :
             Contains(Lower(StrOrEmpty(row.team)), Lower(PyStrip(team_name))))

\* casco_monday.py:1342  _filter_schedule
_filter_schedule(rows, team_name) ==
    IF ~Truthy(team_name) THEN rows ELSE _filter_matches(rows, team_name)

\* casco_monday.py:32  get_casco_monday, the network answering with one of responses
get_casco_monday_over(responses) ==
    /\ UNCHANGED txn
    /\ calls < MaxCalls
    /\ calls' = calls + 1
    /\ \E team_name \in TeamArgs, force_refresh \in BOOLEAN, pdf_url \in ConfiguredUrls :
          LET key == "casco_monday_bayside"
              args == Args(team_name, None, force_refresh, pdf_url)
              fetch_state == get_bowling_fetch(fetches, key)
              should == _should_refresh(fetch_state, pdf_url)
              obs(trace, result) ==
                  Observed("get_casco_monday", key, args, should, trace, result)
          IN  IF ~force_refresh /\ ~should
              THEN /\ last' = obs(<<>>, Result("ok", "", TRUE,
                                      _load_cached_standings(stats, key, team_name),
                                      _load_cached_schedule(matches, key, team_name)))
                   /\ UNCHANGED <<stats, matches, fetches, files, now>>
              ELSE \E response \in responses :
                   IF fetch_pdf(args.url, response).raised # ""
                   THEN /\ last' = Fetched(response, obs(<<"fetch_pdf">>,
                                    Raised(fetch_pdf(args.url, response).raised)))
                        /\ UNCHANGED <<stats, matches, fetches, files, now>>
                   ELSE \E doc \in BaysideDocs, reply \in QueryReplies :
                        LET standings == BaysideStandings(doc, reply)
                            fetched == <<"fetch_pdf", "write_file", "extract_text">>
                                           \o standings.trace
                        IN  IF standings.raised # ""
                            THEN /\ files' = [files EXCEPT ![key] = doc]
                                 /\ last' = Fetched(response, obs(fetched, Raised(standings.raised)))
                                 /\ UNCHANGED <<stats, matches, fetches, now>>
                            ELSE /\ files' = [files EXCEPT ![key] = doc]
                                 /\ stats' = _save_standings(stats, key, standings.rows)
                                 /\ matches' = _save_schedule(matches, key, doc.schedule)
                                 /\ fetches' = _upsert_fetch_state(fetches, key, pdf_url)
                                 /\ last' = Fetched(response, obs(fetched \o <<"save_stats", "save_matches",
                                                            "upsert_fetch">>,
                                                Result("ok", "", FALSE,
                                                       _filter_team(standings.rows, team_name),
                                                       _filter_schedule(doc.schedule, team_name))))
                                 /\ UNCHANGED now

get_casco_monday == get_casco_monday_over(FetchResponses)

\* casco_monday.py:361  _extract_team_schedule_with_llm: date, time and lane of
\* the team's matches; a reply that is not a JSON array gives []
LlmTeamSchedule == <<Match(Jan9, SixPm, None, None)>>
TeamScheduleWithLlm(reply) ==
    IF LlmRaises(reply) # "" THEN Ret(<<>>, <<"llm_once">>, LlmRaises(reply))
    ELSE Ret(IF reply = "rows" THEN LlmTeamSchedule ELSE <<>>, <<"llm_once">>, "")

\* casco_monday.py:902  _extract_team_schedule_from_parsed
_extract_team_schedule_from_parsed(schedule, team_name) ==
    LET team_key == Lower(PyStrip(team_name))
    IN  SelectSeq(schedule, LAMBDA row :
            \/ Lower(PyStrip(StrOrEmpty(row.team_a))) = team_key
            \/ Lower(PyStrip(StrOrEmpty(row.team_b))) = team_key)

\* casco_monday.py:799  _build_team_summary_from_parsed: the team's standings
\* row and its matches, NoRow when the standings do not hold the team
_build_team_summary_from_parsed(team_name, standings, schedule) ==
    LET team_key == Lower(PyStrip(team_name))
        normalized == SelectSeq(standings, LAMBDA row :
                          Truthy(row.team) /\ row.points # NoneInt)
        mine == SelectSeq(normalized, LAMBDA row : Lower(PyStrip(row.team)) = team_key)
    IN  IF mine = <<>> THEN NoRow
        ELSE [team |-> mine[1].team, points |-> mine[1].points,
              schedule |-> _extract_team_schedule_from_parsed(schedule, team_name)]

\* casco_monday.py:275  _extract_team_summary_with_llm
TeamSummaryWithLlm(reply) ==
    IF LlmRaises(reply) # "" THEN Ret(<<>>, <<"llm_once">>, LlmRaises(reply))
    ELSE IF reply = "object" THEN Ret(<<"llm_summary">>, <<"llm_once">>, "")
    ELSE Ret(<<>>, <<"llm_once">>, "")

\* casco_monday.py:82  get_casco_monday_team_summary. The documents hold no
\* per-team schedule table, so lines 121-139 leave the schedule as it is.
get_casco_monday_team_summary ==
    /\ UNCHANGED txn
    /\ calls < MaxCalls
    /\ calls' = calls + 1
    /\ \E team_name \in TeamArgs \ {None}, force_refresh \in BOOLEAN,
          pdf_url \in ConfiguredUrls :
          LET key == "casco_monday_bayside"
              args == Args(team_name, None, force_refresh, pdf_url)
              fetch_state == get_bowling_fetch(fetches, key)
              should == _should_refresh(fetch_state, pdf_url)
              cached == ~force_refresh /\ ~should
              obs(trace, result) ==
                  Observed("get_casco_monday_team_summary", key, args, should, trace, result)
              outcome(read, doc, reply) ==
                  LET standings == BaysideStandings(doc, reply)
                      team_schedule == TeamScheduleWithLlm(reply)
                      schedule ==
                          IF team_schedule.rows # <<>>
                          THEN [i \in 1..Len(team_schedule.rows) |->
                                   Match(team_schedule.rows[i].date,
                                         team_schedule.rows[i].time, team_name, <<>>)]
                          ELSE doc.schedule
                      local_summary ==
                          _build_team_summary_from_parsed(team_name, standings.rows, schedule)
                      summary == TeamSummaryWithLlm(reply)
                      parsed == read \o <<"extract_text">> \o standings.trace
                  IN  IF standings.raised # ""
                      THEN obs(parsed, Raised(standings.raised))
                      ELSE IF team_schedule.raised # ""
                      THEN obs(parsed \o team_schedule.trace, Raised(team_schedule.raised))
                      ELSE IF local_summary # NoRow
                      THEN obs(parsed \o team_schedule.trace,
                               Result("ok", "", cached, <<local_summary>>,
                                      local_summary.schedule))
                      ELSE IF summary.raised # ""
                      THEN obs(parsed \o team_schedule.trace \o summary.trace,
                               Raised(summary.raised))
                      ELSE IF summary.rows # <<>>
                      THEN obs(parsed \o team_schedule.trace \o summary.trace,
                               Result("ok", "", cached, summary.rows, <<>>))
                      ELSE obs(parsed \o team_schedule.trace \o summary.trace,
                               Result("error", "team_summary_parse_failed", FALSE,
                                      <<>>, <<>>))
          IN  IF ~force_refresh /\ files[key] # NoFile
              THEN \E reply \in QueryReplies :
                   /\ last' = outcome(<<"read_file">>, files[key], reply)
                   /\ UNCHANGED <<stats, matches, fetches, files, now>>
              ELSE \E response \in FetchResponses :
                   IF fetch_pdf(args.url, response).raised # ""
                   THEN /\ last' = Fetched(response, obs(<<"fetch_pdf">>,
                                    Raised(fetch_pdf(args.url, response).raised)))
                        /\ UNCHANGED <<stats, matches, fetches, files, now>>
                   ELSE \E doc \in BaysideDocs, reply \in QueryReplies :
                        /\ files' = [files EXCEPT ![key] = doc]
                        /\ fetches' = _upsert_fetch_state(fetches, key, pdf_url)
                        /\ last' = Fetched(response, outcome(<<"fetch_pdf", "write_file", "upsert_fetch">>,
                                           doc, reply))
                        /\ UNCHANGED <<stats, matches, now>>

Init ==
    /\ txn = NoTxn
    /\ stats = <<>>
    /\ matches = <<>>
    /\ fetches = [key \in SourceKeys |-> NoFetch]
    /\ files = [key \in SourceKeys |-> NoFile]
    /\ now = 0
    /\ calls = 0
    /\ last = [op |-> "init"]

Next ==
    \/ get_casco_monday_bowlers
    \/ get_bopo_averages
    \/ get_bopo_standings
    \/ get_bopo_schedule
    \/ get_casco_monday
    \/ get_casco_monday_team_summary
    \/ Tick

Spec == Init /\ [][Next]_vars


(***************************************************************************)
(* Properties of the inbound queries, read from the observation in last    *)
(***************************************************************************)
CachedQueries ==
    {"get_bopo_averages", "get_bopo_standings", "get_bopo_schedule",
     "get_casco_monday", "get_casco_monday_bowlers"}
AllQueries == CachedQueries \cup {"get_casco_monday_team_summary"}

\* the arguments let the query reach its refresh decision
ValidArgs ==
    /\ Truthy(last.args.url)
    /\ last.op = "get_bopo_schedule" => Truthy(last.args.team_name)

LlmCalls(trace) == Positions(trace, "llm_once") \cup Positions(trace, "llm_chunk")

Elapsed(fetch_state) == now - FromIsoFormat(fetch_state.last_fetch_at)

\* C2: for every source key, should_refresh is true while the key has no fetch
\* state; once a refresh has upserted the state, should_refresh for the URL it
\* recorded is false exactly while the time elapsed since the upsert is at most
\* the refresh interval, and true once it exceeds the interval; right after a
\* query upserted the state, should_refresh for the URL it used is false; and a
\* query answers from the cache only inside that window.
C2_RefreshGating ==
    /\ \A key \in SourceKeys :
          LET fetch_state == get_bowling_fetch(fetches, key)
          IN  IF fetch_state = NoFetch
              THEN \A url \in ConfiguredUrls \cup ResolvedUrls :
                       _should_refresh(fetch_state, url)
              ELSE _should_refresh(fetch_state, fetch_state[UrlColumn(key)])
                       <=> Elapsed(fetch_state) > RefreshDays
    /\ (last.op \in AllQueries /\ "upsert_fetch" \in Range(last.trace)) =>
          ~_should_refresh(get_bowling_fetch(fetches, last.league_key), last.args.url)
    /\ (last.op \in CachedQueries /\ last.result.cached) =>
          /\ get_bowling_fetch(fetches, last.league_key) # NoFetch
          /\ Elapsed(get_bowling_fetch(fetches, last.league_key)) <= RefreshDays

\* a query answered from the cache exactly RefreshDays after the refresh
C2_Witness ==
    /\ last.op \in CachedQueries
    /\ last.result.cached
    /\ last.trace = <<>>
    /\ Elapsed(get_bowling_fetch(fetches, last.league_key)) = RefreshDays

\* C3: a query called without force refresh while should_refresh is false
\* fetches no document, calls no model, writes nothing and returns status ok
\* with cached = true, whatever the filter values are.
C3_CacheHit ==
    (/\ last.op \in CachedQueries
     /\ ValidArgs
     /\ ~last.args.force_refresh
     /\ ~last.should_refresh) =>
        /\ last.trace = <<>>
        /\ last.result.status = "ok"
        /\ last.result.cached

\* C4: whenever a force refresh is requested or should_refresh is true, the
\* query fetches the document anew and, when it returns a result, has saved the
\* records and updated the fetch state; it never reads the cached document.
C4_RefreshWhenDue ==
    (/\ last.op \in AllQueries
     /\ ValidArgs
     /\ (last.args.force_refresh \/ last.should_refresh)) =>
        /\ last.trace # <<>>
        /\ Head(last.trace) = "fetch_pdf"
        /\ last.result.status = "ok" =>
              /\ "upsert_fetch" \in Range(last.trace)
              /\ {"save_stats", "save_matches"} \cap Range(last.trace) # {}

\* what table detection and line-based text parsing give for the document of
\* a query; the BoPo schedule and standings queries have no structural stage
StructuralRows(op, doc) ==
    CASE op = "get_casco_monday_bowlers" ->
             IF ParseTableRows(doc.table, None) # <<>>
             THEN ParseTableRows(doc.table, None)
             ELSE _parse_stats_text(doc.text)
      [] op = "get_casco_monday" -> doc.standings
      [] op = "get_casco_monday_team_summary" -> doc.standings \o doc.schedule
      [] OTHER -> <<>>

C8_StructuredResult ==
    last.op \in AllQueries => last.result.status \in {"ok", "error"}


(***************************************************************************)
(* SpecConc: refreshes of casco_monday_bayside, statement by statement of  *)
(* their two store writes (casco_monday.py:66-68 over sqlite.py:653-686 and *)
(* 758-781), against a concurrent get_casco_monday answered from the        *)
(* cache (casco_monday.py:42-44).  A connection reads the committed image; *)
(* the writer's statements act on its own image until the with-block       *)
(* commits, and an exception inside the block rolls the image back.        *)
(***************************************************************************)
MaxRefreshes == 2
ConcKey == "casco_monday_bayside"

ConcInit ==
    /\ stats = <<>>
    /\ matches = <<>>
    /\ fetches = [key \in SourceKeys |-> NoFetch]
    /\ files = [key \in SourceKeys |-> NoFile]
    /\ now = 0
    /\ calls = 0
    /\ last = [op |-> "init"]
    /\ txn = NoTxn

\* casco_monday.py:54-66 and sqlite.py:654-655: the document is fetched and
\* written, its rows are stamped, the connection opens and runs the DELETE
BeginSaveStandings ==
    /\ txn.pc = "idle"
    /\ calls < MaxRefreshes
    /\ calls' = calls + 1
    /\ \E doc \in BaysideDocs :
          LET standings == BaysideStandings(doc, "rows").rows
          IN  /\ files' = [files EXCEPT ![ConcKey] = doc]
              /\ txn' = [pc |-> "save_stats",
                         image |-> DeleteKey(stats, ConcKey),
                         todo |-> [i \in 1..Len(standings) |->
                                      Stamp(StatRow(ConcKey, _to_str(standings[i].team), None,
                                                    NoneInt, standings[i]))]]
    /\ UNCHANGED <<stats, matches, fetches, now, last>>

\* sqlite.py:656-685  one turn of the loop: one INSERT on the writer's image
InsertStatRow ==
    /\ txn.pc = "save_stats"
    /\ txn.todo # <<>>
    /\ txn' = [txn EXCEPT !.image = InsertStat(txn.image, Head(txn.todo)),
                          !.todo = Tail(txn.todo)]
    /\ UNCHANGED <<stats, matches, fetches, files, now, calls, last>>

\* sqlite.py:654  the with-block ends: COMMIT
CommitStats ==
    /\ txn.pc = "save_stats"
    /\ txn.todo = <<>>
    /\ stats' = txn.image
    /\ txn' = [pc |-> "stats_saved"]
    /\ UNCHANGED <<matches, fetches, files, now, calls, last>>

\* sqlite.py:654  a statement raises inside the with-block: ROLLBACK, and the
\* exception ends the query
AbortStats ==
    /\ txn.pc = "save_stats"
    /\ txn' = [pc |-> "failed"]
    /\ UNCHANGED <<stats, matches, fetches, files, now, calls, last>>

\* casco_monday.py:67 and sqlite.py:759-760: the second connection and its DELETE
BeginSaveSchedule ==
    /\ txn.pc = "stats_saved"
    /\ LET schedule == files[ConcKey].schedule
       IN  txn' = [pc |-> "save_matches",
                   image |-> DeleteKey(matches, ConcKey),
                   todo |-> [i \in 1..Len(schedule) |->
                                Stamp(MatchRow(ConcKey, _to_str(schedule[i].date),
                                               _to_str(schedule[i].time),
                                               _to_str(schedule[i].team_a),
                                               _to_str(schedule[i].team_b), schedule[i]))]]
    /\ UNCHANGED <<stats, matches, fetches, files, now, calls, last>>

\* sqlite.py:761-781  one INSERT INTO bowling_matches on the writer's image
InsertMatchRow ==
    /\ txn.pc = "save_matches"
    /\ txn.todo # <<>>
    /\ txn' = [txn EXCEPT !.image = InsertMatch(txn.image, Head(txn.todo)),
                          !.todo = Tail(txn.todo)]
    /\ UNCHANGED <<stats, matches, fetches, files, now, calls, last>>

CommitMatches ==
    /\ txn.pc = "save_matches"
    /\ txn.todo = <<>>
    /\ matches' = txn.image
    /\ txn' = [pc |-> "matches_saved"]
    /\ UNCHANGED <<stats, fetches, files, now, calls, last>>

AbortMatches ==
    /\ txn.pc = "save_matches"
    /\ txn' = [pc |-> "failed"]
    /\ UNCHANGED <<stats, matches, fetches, files, now, calls, last>>

\* casco_monday.py:68  _upsert_fetch_state, the end of the refresh
FinishRefresh ==
    /\ txn.pc = "matches_saved"
    /\ fetches' = _upsert_fetch_state(fetches, ConcKey, UrlA)
    /\ txn' = [pc |-> "done"]
    /\ UNCHANGED <<stats, matches, files, now, calls, last>>

\* the next day's refresh can begin
NextDay ==
    /\ txn.pc \in {"done", "failed"}
    /\ calls < MaxRefreshes
    /\ now' = now + 1
    /\ txn' = NoTxn
    /\ UNCHANGED <<stats, matches, fetches, files, calls, last>>

CreatedAt(rows) == {rows[i].created_at : i \in 1..Len(rows)}

\* casco_monday.py:43  the reader's _load_cached_standings, with the stamps of
\* the rows it was given
ReadStandings ==
    /\ last.op # "reading"
    /\ LET listed == list_bowling_stats(stats, ConcKey, None, None)
       IN  last' = [op |-> "reading",
                    standings |-> _load_cached_standings(stats, ConcKey, None),
                    standings_at |-> CreatedAt(listed)]
    /\ UNCHANGED <<stats, matches, fetches, files, now, calls, txn>>

\* casco_monday.py:44  the reader's _load_cached_schedule, and its result
ReadSchedule ==
    /\ last.op = "reading"
    /\ LET listed == list_bowling_matches(matches, ConcKey, None, None, None)
       IN  last' = [op |-> "get_casco_monday",
                    standings |-> last.standings,
                    standings_at |-> last.standings_at,
                    schedule |-> _load_cached_schedule(matches, ConcKey, None),
                    schedule_at |-> CreatedAt(listed)]
    /\ UNCHANGED <<stats, matches, fetches, files, now, calls, txn>>

ConcNext ==
    \/ BeginSaveStandings
    \/ InsertStatRow
    \/ CommitStats
    \/ AbortStats
    \/ BeginSaveSchedule
    \/ InsertMatchRow
    \/ CommitMatches
    \/ AbortMatches
    \/ FinishRefresh
    \/ NextDay
    \/ ReadStandings
    \/ ReadSchedule

SpecConc == ConcInit /\ [][ConcNext]_vars

\* the committed rows of the key, both tables, belong to one refresh
OneRefresh(stat_stamps, match_stamps) ==
    /\ Cardinality(stat_stamps \cup match_stamps) <= 1
    /\ (stat_stamps = {}) = (match_stamps = {})

\* C7: a reader of casco_monday_bayside observes the complete data set of one
\* refresh, standings and schedule together, never a half-replaced one; and
\* when a write fails part-way, the rows the key had before the refresh remain
\* in both tables.
C7_AtomicReplacePerKey ==
    /\ last.op = "get_casco_monday" => OneRefresh(last.standings_at, last.schedule_at)
    /\ txn.pc = "failed" =>
          OneRefresh(CreatedAt(list_bowling_stats(stats, ConcKey, None, None)),
                     CreatedAt(list_bowling_matches(matches, ConcKey, None, None, None)))

(***************************************************************************)
(* BowlingService (service.py): the per-league refresh check                *)
(***************************************************************************)
\* key of the league configured in bowling.json (tests/core/test_bowling_service.py)
LeagueKey == "monday_bayside"

\* service.py:163  BowlingService._should_refresh: fromisoformat("") raises
\* ValueError like any other malformed text; no URL is looked at
BowlingService_should_refresh(table, league_key) ==
    LET fetch_state == get_bowling_fetch(table, league_key)
    IN  IF fetch_state = NoFetch THEN TRUE
        ELSE IF ~ParsesAsIso(fetch_state.last_fetch_at) THEN TRUE
        ELSE IF now - FromIsoFormat(fetch_state.last_fetch_at) > RefreshDays THEN TRUE
        ELSE FALSE

(***************************************************************************)
(* SpecRefresh: the refresh checks applied to every fetch state of a key,  *)
(* every candidate URL and every age                                        *)
(***************************************************************************)
RefreshKeys == SourceKeys \cup {LeagueKey}
RefreshStamps == {EmptyStamp, BadStamp, IsoFormat(0), IsoFormat(1)}
RecordedUrls == {None, UrlA, UrlB}
CandidateUrls == {UrlA, UrlMoved, UrlB}
RefreshClock == {1, RefreshDays, RefreshDays + 1, RefreshDays + 2}

\* the bowling_fetches rows a key can hold: the query modules record one URL
\* column, a row of a league records the URLs of its documents
RefreshStates(key) ==
    {NoFetch} \cup
    {IF key = LeagueKey
     THEN FetchState(key, stamp, url, url, url)
     ELSE FetchState(key, stamp,
                     IF UrlColumn(key) = "stats_url" THEN url ELSE None,
                     IF UrlColumn(key) = "schedule_url" THEN url ELSE None,
                     IF UrlColumn(key) = "standings_url" THEN url ELSE None) :
        stamp \in RefreshStamps, url \in RecordedUrls}

RefreshInit ==
    /\ txn = NoTxn
    /\ stats = <<>>
    /\ matches = <<>>
    /\ files = [key \in RefreshKeys |-> NoFile]
    /\ calls = 0
    /\ now \in RefreshClock
    /\ \E key \in RefreshKeys, url \in CandidateUrls :
          /\ \E fetch_state \in RefreshStates(key) :
                fetches = [k \in RefreshKeys |-> IF k = key THEN fetch_state ELSE NoFetch]
          /\ last = [op |-> "input", league_key |-> key, url |-> url]

\* the check of a query module (casco_stats.py:42, bopo_schedule.py:40, ...)
ModuleShouldRefresh ==
    /\ last.op = "input"
    /\ last.league_key \in SourceKeys
    /\ last' = [op |-> "_should_refresh", league_key |-> last.league_key, url |-> last.url,
                result |-> _should_refresh(get_bowling_fetch(fetches, last.league_key),
                                           last.url)]
    /\ UNCHANGED <<stats, matches, fetches, files, now, calls, txn>>

\* the check of _ensure_league_data (service.py:159); last.url is what
\* _resolve_league_urls gives for the league's documents at that moment
ServiceShouldRefresh ==
    /\ last.op = "input"
    /\ last.league_key = LeagueKey
    /\ last' = [op |-> "BowlingService._should_refresh", league_key |-> last.league_key,
                url |-> last.url,
                result |-> BowlingService_should_refresh(fetches, last.league_key)]
    /\ UNCHANGED <<stats, matches, fetches, files, now, calls, txn>>

RefreshNext == ModuleShouldRefresh \/ ServiceShouldRefresh

SpecRefresh == RefreshInit /\ [][RefreshNext]_vars

\* the decision the contract describes, for a state whose timestamp is empty
\* or well formed
ContractShouldRefresh(fetch_state, url) ==
    \/ fetch_state = NoFetch
    \/ fetch_state.last_fetch_at = EmptyStamp
    \/ now - FromIsoFormat(fetch_state.last_fetch_at) > RefreshDays
    \/ _basename(IF fetch_state.league_key = LeagueKey
                 THEN fetch_state.stats_url
                 ELSE fetch_state[UrlColumn(fetch_state.league_key)]) # _basename(url)

RefreshChecked(ops) ==
    /\ last.op \in ops
    /\ LET fetch_state == get_bowling_fetch(fetches, last.league_key)
       IN  fetch_state = NoFetch \/ fetch_state.last_fetch_at # BadStamp

ModuleChecksFollowContract ==
    RefreshChecked({"_should_refresh"}) =>
        (last.result <=>
            ContractShouldRefresh(get_bowling_fetch(fetches, last.league_key), last.url))

\* rows stored under a key, by either save
StoredFor(key) ==
    SelectSeq(stats, LAMBDA r : r.league_key = key)
        \o SelectSeq(matches, LAMBDA r : r.league_key = key)

\* the step is a query of the cached family that refreshed and stored no row
EmptyRefresh ==
    /\ last'.op \in CachedQueries
    /\ "upsert_fetch" \in Range(last'.trace)
    /\ SelectSeq(stats', LAMBDA r : r.league_key = last'.league_key) = <<>>
    /\ SelectSeq(matches', LAMBDA r : r.league_key = last'.league_key) = <<>>

\* the step is a query for a key whose last refresh stored no row, made without
\* force refresh while the recorded URL is unchanged and the interval not over
QueryAfterEmptyRefresh ==
    /\ last'.op \in CachedQueries
    /\ get_bowling_fetch(fetches, last'.league_key) # NoFetch
    /\ StoredFor(last'.league_key) = <<>>
    /\ Truthy(last'.args.url)
    /\ last'.op = "get_bopo_schedule" => Truthy(last'.args.team_name)
    /\ ~last'.args.force_refresh
    /\ ~last'.should_refresh

\* C12: a refresh whose extraction produced zero rows leaves the fetch state of
\* the key with the new timestamp, the resolved URL and the cache file path, and
\* the next query for the key within the refresh interval with an unchanged URL
\* does not fetch the document again.
C12_EmptyRefreshIsRemembered ==
    [][/\ EmptyRefresh =>
            LET fetch_state == get_bowling_fetch(fetches', last'.league_key)
            IN  /\ fetch_state # NoFetch
                /\ fetch_state.last_fetch_at = IsoFormat(now)
                /\ fetch_state[UrlColumn(last'.league_key)] = last'.args.url
                /\ fetch_state.file_path = last'.league_key
       /\ QueryAfterEmptyRefresh => "fetch_pdf" \notin Range(last'.trace)]_vars

\* the first half alone: the upsert after an empty extraction
EmptyRefreshUpserts ==
    [][EmptyRefresh =>
            LET fetch_state == get_bowling_fetch(fetches', last'.league_key)
            IN  /\ fetch_state # NoFetch
                /\ fetch_state.last_fetch_at = IsoFormat(now)
                /\ fetch_state[UrlColumn(last'.league_key)] = last'.args.url
                /\ fetch_state.file_path = last'.league_key]_vars


(***************************************************************************)
(* SpecRace: two requests refresh casco_monday_stats at the same time (the *)
(* API runs its handlers on a thread pool and bowling_agent shares the     *)
(* database).  _upsert_fetch_state reads the clock (casco_stats.py:500)    *)
(* and then writes the row in a transaction of its own (sqlite.py:823);    *)
(* the other request can run between the two.                              *)
(***************************************************************************)
MaxRaceRefreshes == 3
MaxClock == 3
Refreshers == {1, 2}
RaceKey == "casco_monday_stats"

RaceInit ==
    /\ stats = <<>>
    /\ matches = <<>>
    /\ fetches = [key \in SourceKeys |-> NoFetch]
    /\ files = [key \in SourceKeys |-> NoFile]
    /\ now = 0
    /\ calls = 0
    /\ last = [op |-> "init"]
    /\ txn = [p \in Refreshers |-> NoTxn]

\* casco_stats.py:41-59  a request finds a refresh due (or is forced), fetches
\* and parses the document and commits _save_bowler_stats
RefreshAndSave(p) ==
    /\ txn[p].pc = "idle"
    /\ calls < MaxRaceRefreshes
    /\ calls' = calls + 1
    /\ \E stats_url \in ConfiguredUrls, force_refresh \in BOOLEAN, doc \in StatsDocs :
          /\ force_refresh \/ _should_refresh(get_bowling_fetch(fetches, RaceKey), stats_url)
          /\ files' = [files EXCEPT ![RaceKey] = doc]
          /\ stats' = _save_bowler_stats(stats, RaceKey,
                                         _parse_stats_pdf(doc, "rows", "rows").rows)
          /\ txn' = [txn EXCEPT ![p] = [pc |-> "saved", stats_url |-> stats_url]]
    /\ last' = [op |-> "get_casco_monday_bowlers", request |-> p]
    /\ UNCHANGED <<matches, fetches, now>>

\* casco_stats.py:500  timestamp = datetime.now().isoformat()
TakeTimestamp(p) ==
    /\ txn[p].pc = "saved"
    /\ txn' = [txn EXCEPT ![p] = [pc |-> "stamped", stats_url |-> txn[p].stats_url,
                                  timestamp |-> IsoFormat(now)]]
    /\ UNCHANGED <<stats, matches, fetches, files, now, calls, last>>

\* casco_stats.py:501-510  store.upsert_bowling_fetch(...) commits the row
WriteFetchState(p) ==
    /\ txn[p].pc = "stamped"
    /\ fetches' = upsert_bowling_fetch(fetches,
                      FetchState(RaceKey, txn[p].timestamp, txn[p].stats_url, None, None))
    /\ txn' = [txn EXCEPT ![p] = NoTxn]
    /\ last' = [op |-> "upsert_bowling_fetch", request |-> p]
    /\ UNCHANGED <<stats, matches, files, now, calls>>

\* the clock moves on while requests are in flight
RaceTick ==
    /\ now < MaxClock
    /\ now' = now + 1
    /\ UNCHANGED <<stats, matches, fetches, files, calls, last, txn>>

RaceNext ==
    \/ \E p \in Refreshers : RefreshAndSave(p)
    \/ \E p \in Refreshers : TakeTimestamp(p)
    \/ \E p \in Refreshers : WriteFetchState(p)
    \/ RaceTick

SpecRace == RaceInit /\ [][RaceNext]_vars

\* C13: for every source key the stored last_fetch_at never decreases: over
\* any sequence of queries and refreshes, and over any interleaving of two
\* refreshes of the same key that each take their timestamp and then write the
\* fetch state, every write leaves last_fetch_at greater than or equal to the
\* value stored before it (and never removes the state).
C13_LastFetchNeverDecreases ==
    [][\A key \in DOMAIN fetches :
          fetches[key] # NoFetch =>
              /\ fetches'[key] # NoFetch
              /\ FromIsoFormat(fetches'[key].last_fetch_at)
                    >= FromIsoFormat(fetches[key].last_fetch_at)]_vars


\* the dedup key of a stored match record: date, time and the two teams,
\* trimmed and lowercased (casco_monday.py:1243-1248)
MatchDedupKey(r) ==
    <<Lower(PyStrip(StrOrEmpty(r.match_date))), Lower(PyStrip(StrOrEmpty(r.match_time))),
      Lower(PyStrip(StrOrEmpty(r.team_a))), Lower(PyStrip(StrOrEmpty(r.team_b)))>>

\* the dedup key of a stored standings record: day and team, trimmed and
\* lowercased (bopo_standings.py:400-403)
StandingDedupKey(r) ==
    <<Lower(PyStrip(StrOrEmpty(r.raw.day))), Lower(PyStrip(StrOrEmpty(r.team_name)))>>

StandingsKeys == {"bopo_standings", "casco_monday_bayside"}

NoTwoMatches(key) ==
    \A i, j \in 1..Len(matches) :
        (/\ i # j
         /\ matches[i].league_key = key
         /\ matches[j].league_key = key) =>
            MatchDedupKey(matches[i]) # MatchDedupKey(matches[j])

NoTwoStandings(key) ==
    \A i, j \in 1..Len(stats) :
        (/\ i # j
         /\ stats[i].league_key = key
         /\ stats[j].league_key = key) =>
            StandingDedupKey(stats[i]) # StandingDedupKey(stats[j])

\* C14: in every reachable state of the record store, within one source key
\* no two match records have the same (date, time, team_a, team_b) after
\* lowercasing and trimming, and no two standings records have the same
\* (day, team) after lowercasing and trimming, whichever query saved the rows.
C14_NoDuplicateRecords ==
    /\ \A key \in SourceKeys : NoTwoMatches(key)
    /\ \A key \in StandingsKeys : NoTwoStandings(key)

\* the same statement for get_bopo_standings, which saves what
\* _dedupe_standings returned
BopoStandingsHoldNoDuplicates == NoTwoStandings("bopo_standings")


\* the query called the model chunk by chunk and one of the calls timed out
ChunkTimedOut ==
    /\ last.op = "get_bopo_standings"
    /\ "llm_timeout" \in Range(last.trace)

FirstTimeout ==
    CHOOSE i \in Positions(last.trace, "llm_timeout") :
        \A j \in Positions(last.trace, "llm_timeout") : i <= j

\* C15: when a model call times out on some chunk of a chunked extraction, no
\* model call is made for any later chunk, the query returns status error with
\* error code llm_timeout, and the rows extracted from earlier chunks are
\* preserved rather than discarded.
C15_TimeoutAbortsChunks ==
    ChunkTimedOut =>
        /\ \A i \in Positions(last.trace, "llm_chunk") : i < FirstTimeout
        /\ last.result.status = "error"
        /\ last.result.error = "llm_timeout"
        /\ (\E i \in Positions(last.trace, "llm_rows") : i < FirstTimeout) =>
              StoredFor("bopo_standings") # <<>>

\* what the code does instead: the timed-out chunk is skipped, and the rows
\* of the other chunks are saved and returned with status ok
TimeoutSkipsChunk ==
    ChunkTimedOut =>
        /\ last.result.status = "ok"
        /\ "save_stats" \in Range(last.trace)
        /\ "llm_rows" \in Range(last.trace) => StoredFor("bopo_standings") # <<>>


(***************************************************************************)
(* The model's reply as text.  A reply is a sequence of characters over    *)
(* JsonChars: "1" is a digit, "{" "}" written together stand for a row     *)
(* object with its keys, "x" is any character of commentary.  json.loads   *)
(* accepts numbers, row objects and arrays of values.                      *)
(***************************************************************************)
MaxText == 5
JsonChars == {"[", "]", "{", "}", ",", "1", "x"}
EmptyList == <<"[", "]">>

RECURSIVE SkipDigits(_, _)
SkipDigits(s, i) == IF i <= Len(s) /\ s[i] = "1" THEN SkipDigits(s, i + 1) ELSE i

\* the JSON decoder's scan: the index after the value that starts at i, or 0
\* where the decoder raises JSONDecodeError
RECURSIVE ParseValue(_, _)
RECURSIVE ParseElements(_, _)
ParseValue(s, i) ==
    IF i > Len(s) THEN 0
    ELSE CASE s[i] = "1" -> SkipDigits(s, i)
           [] s[i] = "{" -> IF i < Len(s) /\ s[i + 1] = "}" THEN i + 2 ELSE 0
           [] s[i] = "[" -> IF i < Len(s) /\ s[i + 1] = "]" THEN i + 2
                            ELSE ParseElements(s, i + 1)
           [] OTHER -> 0
ParseElements(s, i) ==
    LET j == ParseValue(s, i)
    IN  IF j = 0 \/ j > Len(s) THEN 0
        ELSE IF s[j] = "]" THEN j + 1
        ELSE IF s[j] = "," THEN ParseElements(s, j + 1)
        ELSE 0

\* json.loads: the value (as its text) or JSONDecodeError
json_loads(content) ==
    IF ParseValue(content, 1) = Len(content) + 1
    THEN [ok |-> TRUE, value |-> content]
    ELSE [ok |-> FALSE, value |-> None]

IsList(value) == value # None /\ value[1] = "["
IsDict(value) == value # None /\ value[1] = "{"

\* the elements of a decoded array, from the element that starts at i
RECURSIVE ElementsFrom(_, _)
ElementsFrom(s, i) ==
    IF s[i] = "]" THEN <<>>
    ELSE LET j == ParseValue(s, i)
         IN  <<SubSeq(s, i, j - 1)>> \o (IF s[j] = "," THEN ElementsFrom(s, j + 1) ELSE <<>>)
Elements(value) == ElementsFrom(value, 2)

\* casco_stats.py:389 / casco_monday.py:424 / bopo_schedule.py:273 /
\* bopo_standings.py:361  _extract_json_array: re.search(r"\[[\s\S]*\]") matches
\* from the first "[" to the last "]" (the star is greedy), json.loads of the
\* match or None
_extract_json_array(content) ==
    LET opens == {i \in 1..Len(content) : content[i] = "["}
        first == CHOOSE i \in opens : \A k \in opens : i <= k
        closes == {j \in 1..Len(content) : content[j] = "]" /\ j > first}
        last_close == CHOOSE j \in closes : \A k \in closes : k <= j
    IN  IF opens = {} \/ closes = {} THEN None
        ELSE json_loads(SubSeq(content, first, last_close)).value

\* casco_stats.py:313-322 (casco_monday.py:263-272, 349-358, 392-401): the
\* decoded reply is returned only if it is a list
CheckedJsonReply(content) ==
    LET parsed == json_loads(content)
        extracted == _extract_json_array(content)
    IN  IF parsed.ok THEN (IF IsList(parsed.value) THEN parsed.value ELSE EmptyList)
        ELSE IF extracted # None THEN extracted
        ELSE EmptyList

\* bopo_standings.py:202-209 (bopo_schedule.py:263-270): the decoded reply is
\* returned whatever it is
UncheckedJsonReply(content) ==
    LET parsed == json_loads(content)
        extracted == _extract_json_array(content)
    IN  IF parsed.ok THEN parsed.value
        ELSE IF extracted # None THEN extracted
        ELSE EmptyList

\* bopo_standings.py:162-171  combined.extend(chunk_rows) for each reply, then
\* _dedupe_standings: extending with a number raises TypeError, extending with
\* an object appends its keys, and row.get on anything but an object raises
\* AttributeError; the rows "{" "}" all have the same (day, team)
RECURSIVE ExtendAll(_, _)
ExtendAll(combined, contents) ==
    IF contents = <<>> THEN Ret(combined, <<>>, "")
    ELSE LET chunk_rows == UncheckedJsonReply(Head(contents))
         IN  IF IsList(chunk_rows)
             THEN ExtendAll(combined \o Elements(chunk_rows), Tail(contents))
             ELSE IF IsDict(chunk_rows)
             THEN ExtendAll(combined \o << <<"k">> >>, Tail(contents))
             ELSE Ret(combined, <<>>, "TypeError")

StandingsChunksOfTexts(contents) ==
    LET combined == ExtendAll(<<>>, contents)
    IN  IF combined.raised # "" THEN Ret(<<>>, <<>>, combined.raised)
        ELSE IF \E i \in 1..Len(combined.rows) : ~IsDict(combined.rows[i])
        THEN Ret(<<>>, <<>>, "AttributeError")
        ELSE Ret(IF combined.rows = <<>> THEN <<>> ELSE <<combined.rows[1]>>, <<>>, "")

(***************************************************************************)
(* SpecJson: the reply parsers applied to every text of up to MaxText      *)
(* characters                                                               *)
(***************************************************************************)
JsonInit ==
    /\ txn = NoTxn
    /\ stats = <<>>
    /\ matches = <<>>
    /\ fetches = [key \in SourceKeys |-> NoFetch]
    /\ files = [key \in SourceKeys |-> NoFile]
    /\ now = 0
    /\ calls = 0
    /\ \E content \in SeqsUpTo(JsonChars, MaxText) :
          last = [op |-> "content", content |-> content]

Parsed(op, value, raised) ==
    [op |-> op, content |-> last.content, value |-> value, raised |-> raised]

ExtractJsonArray ==
    /\ last.op = "content"
    /\ last' = Parsed("_extract_json_array", _extract_json_array(last.content), "")
    /\ UNCHANGED <<stats, matches, fetches, files, now, calls, txn>>

\* _extract_stats_with_llm_once and the extraction functions of casco_monday
ExtractWithListCheck ==
    /\ last.op = "content"
    /\ last' = Parsed("checked", CheckedJsonReply(last.content), "")
    /\ UNCHANGED <<stats, matches, fetches, files, now, calls, txn>>

\* _extract_standings_with_llm of bopo_standings, _extract_team_schedule_with_llm
\* of bopo_schedule
ExtractWithoutListCheck ==
    /\ last.op = "content"
    /\ last' = Parsed("unchecked", UncheckedJsonReply(last.content), "")
    /\ UNCHANGED <<stats, matches, fetches, files, now, calls, txn>>

\* _extract_standings_with_llm_chunks on two chunks: the reply to the first
\* is the text, the reply to the second is an array of one row
ExtractStandingsChunks ==
    /\ last.op = "content"
    /\ LET chunked == StandingsChunksOfTexts(<<last.content, <<"[", "{", "}", "]">> >>)
       IN  last' = Parsed("chunked", chunked.rows, chunked.raised)
    /\ UNCHANGED <<stats, matches, fetches, files, now, calls, txn>>

JsonNext ==
    \/ ExtractJsonArray
    \/ ExtractWithListCheck
    \/ ExtractWithoutListCheck
    \/ ExtractStandingsChunks

SpecJson == JsonInit /\ [][JsonNext]_vars

\* a decoded value that is a list whose elements are all row objects
IsRowList(value) ==
    /\ IsList(value)
    /\ \A i \in 1..Len(Elements(value)) : IsDict(Elements(value)[i])

\* C16: for every text the model can return (not JSON at all, JSON that is an
\* object or a number instead of an array, an array whose elements are not
\* objects) each extraction function returns a list of row objects and never
\* raises; in chunked extraction a malformed reply counts as an empty result
\* for its chunk and the rows of the next chunk are still extracted.
C16_MalformedReplyGivesRows ==
    /\ last.op \in {"checked", "unchecked"} => IsRowList(last.value)
    /\ last.op = "chunked" =>
          /\ last.raised = ""
          /\ last.value = << <<"{", "}">> >>

\* what holds of the functions that check the decoded type: they return a list
CheckedReplyIsList == last.op = "checked" => IsList(last.value)


\* content[i..j] is a valid JSON array that starts at the first "[" of the
\* reply: the reply is prefix + A + suffix with A its first balanced [...]
WrappedArrayAt(content, i, j) ==
    /\ i <= j
    /\ content[i] = "["
    /\ \A k \in 1..(i - 1) : content[k] # "["
    /\ json_loads(SubSeq(content, i, j)).ok

\* C17: for every reply of the form prefix + A + suffix, where A is a valid
\* JSON array and prefix and suffix are commentary that may contain bracket
\* or brace characters, _extract_json_array recovers exactly A, the first
\* balanced [...] substring of the reply.
C17_RecoversWrappedArray ==
    last.op = "_extract_json_array" =>
        \A i, j \in 1..Len(last.content) :
            WrappedArrayAt(last.content, i, j) =>
                last.value = SubSeq(last.content, i, j)

\* what holds: the array is recovered when no "]" follows it in the reply
RecoversArrayBeforeLastBracket ==
    last.op = "_extract_json_array" =>
        \A i, j \in 1..Len(last.content) :
            (/\ WrappedArrayAt(last.content, i, j)
             /\ \A k \in (j + 1)..Len(last.content) : last.content[k] # "]") =>
                last.value = SubSeq(last.content, i, j)


\* _parse_stats_pdf took the merge path: no table rows, the model answered
MergedStats ==
    /\ last.op = "_parse_stats_pdf"
    /\ ~(last.doc.table # <<>> /\ ParseTableRows(last.doc.table, None) # <<>>)
    /\ last.result.raised = ""

BowlerKey(row) == Lower(_to_str(row.bowler))

\* the text-line row and the model rows that _merge_with_local_stats joins
\* with a merged row
LocalRowOf(m) ==
    LET local == _parse_stats_text(last.doc.text)
    IN  IF LastWithKey(local, BowlerKey(m)) = 0 THEN NoRow
        ELSE local[LastWithKey(local, BowlerKey(m))]
ModelRowsOf(m) ==
    SelectSeq(_extract_stats_with_llm(last.doc.text, last.once, last.chunk).rows,
              LAMBDA row : BowlerKey(row) = BowlerKey(m))

\* C18: in _merge_with_local_stats, for a bowler present in the structural
\* rows and in the model's rows (by case-insensitive name), every field that
\* is non-null in the structural row keeps the structural value in the merged
\* row, a model value being used only for a field the structural row leaves
\* null; and a non-null structural team is never replaced by a placeholder
\* team ("Unknown" or blank).
C18_StructuralPrecedence ==
    MergedStats =>
        \A i \in 1..Len(last.result.rows) :
            LET m == last.result.rows[i]
                l == LocalRowOf(m)
            IN  (l # NoRow /\ ModelRowsOf(m) # <<>>) =>
                    /\ l.bowler # None => m.bowler = l.bowler
                    /\ l.team # None => m.team = l.team
                    /\ l.average # NoneInt => m.average = l.average

\* what holds: the team of the structural row survives a placeholder team,
\* while the model's name and average replace the structural ones
MergeKeepsTeamOverPlaceholder ==
    MergedStats =>
        \A i \in 1..Len(last.result.rows) :
            LET m == last.result.rows[i]
                l == LocalRowOf(m)
                rows == ModelRowsOf(m)
            IN  (l # NoRow /\ rows # <<>>) =>
                    /\ (\A k \in 1..Len(rows) :
                            rows[k].team = Unknown \/ _to_str(rows[k].team) = None) =>
                          m.team = l.team
                    /\ m.average = rows[Len(rows)].average


\* a value is a non-empty name
Present(value) == value # None /\ PyStrip(ReplaceNbsp(value)) # <<>>

\* a row that is a bowler: a name, a team, the two different ignoring case,
\* an average below 300
ValidBowlerRow(row) ==
    /\ Present(row.bowler)
    /\ Present(row.team)
    /\ Lower(PyStrip(ReplaceNbsp(row.bowler))) # Lower(PyStrip(ReplaceNbsp(row.team)))
    /\ row.average # NoneInt
    /\ PyLess(row.average, IntOf(300))

RECURSIVE Repeat(_, _)
Repeat(rows, n) == IF n = 0 THEN <<>> ELSE rows \o Repeat(rows, n - 1)

\* the rows the model handed to _extract_stats_with_llm: those of the
\* single-shot reply if one of them is a bowler, else those of the per-chunk
\* replies in chunk order
ModelRows(text, once, chunk) ==
    IF SelectSeq(_extract_stats_with_llm_once(once), ValidBowlerRow) # <<>>
    THEN _extract_stats_with_llm_once(once)
    ELSE Repeat(_extract_stats_with_llm_once(chunk),
                Len(_chunk_text(text, StatsChunkLimit)))

\* position of the first text-line row with the bowler key of m
FirstLocal(m) ==
    LET local == _parse_stats_text(last.doc.text)
        hits == {i \in 1..Len(local) : BowlerKey(local[i]) = BowlerKey(m)}
    IN  IF hits = {} THEN 0 ELSE CHOOSE i \in hits : \A j \in hits : i <= j

\* C19: every row returned by _extract_stats_with_llm (single-shot or chunked)
\* and by _merge_with_local_stats has a non-empty bowler name, a non-empty
\* team name, a bowler name different from its team name ignoring case, and an
\* average below 300; the rows failing any of these are dropped and the other
\* rows keep their order.
C19_ReturnedRowsAreBowlers ==
    last.op = "_parse_stats_pdf" =>
        LET llm == _extract_stats_with_llm(last.doc.text, last.once, last.chunk)
            merged == _merge_with_local_stats(_parse_stats_text(last.doc.text), llm.rows)
        IN  llm.raised = "" =>
                /\ llm.rows = SelectSeq(ModelRows(last.doc.text, last.once, last.chunk),
                                        ValidBowlerRow)
                /\ \A i \in 1..Len(merged) : ValidBowlerRow(merged[i])
                /\ _parse_stats_text(last.doc.text) = <<>> => merged = llm.rows
                /\ _parse_stats_text(last.doc.text) # <<>> =>
                      \A i, j \in 1..Len(merged) :
                          i < j => FirstLocal(merged[i]) < FirstLocal(merged[j])
                /\ MergedStats => last.result.rows = merged

\* the mixed reply went through the filter and through the merge: two of its
\* seven rows are returned in their order, and the merge with the text-line
\* rows returns a bowler
C19_Witness ==
    /\ MergedStats
    /\ last.once = "mixed_rows"
    /\ Len(_extract_stats_with_llm(last.doc.text, last.once, last.chunk).rows) = 2
    /\ _parse_stats_text(last.doc.text) # <<>>
    /\ last.result.rows # <<>>


(***************************************************************************)
(* Stat row classification on cells and text lines                         *)
(*                                                                         *)
(* A cell or a line is a string over letters, digits, the space, U+00A0    *)
(* and "|"; the alphabet has no comma, sign, parenthesis or decimal point. *)
(***************************************************************************)
Digits == {"0", "1", "2", "3", "4", "5", "6", "7", "8", "9"}

DigitValue(c) ==
    CASE c = "0" -> 0 [] c = "1" -> 1 [] c = "2" -> 2 [] c = "3" -> 3
      [] c = "4" -> 4 [] c = "5" -> 5 [] c = "6" -> 6 [] c = "7" -> 7
      [] c = "8" -> 8 [] c = "9" -> 9

IsDigits(s) == s # <<>> /\ \A i \in 1..Len(s) : s[i] \in Digits

\* [A-Za-z] and \w on the alphabet
IsLetter(c) == c \notin Digits \cup Whitespace \cup {"|", "#"}
IsWordChar(c) == IsLetter(c) \/ c \in Digits

RECURSIVE DecimalValue(_)
DecimalValue(s) ==
    IF s = <<>> THEN 0
    ELSE 10 * DecimalValue(SubSeq(s, 1, Len(s) - 1)) + DigitValue(s[Len(s)])

\* casco_stats.py:560  _to_int on a string or None: int(float(cleaned))
_to_int(value) ==
    IF value = None THEN NoneInt
    ELSE LET cleaned == PyStrip(value)
         IN  IF IsDigits(cleaned) THEN IntOf(DecimalValue(cleaned)) ELSE NoneInt

\* casco_stats.py:203  _is_numeric
_is_numeric(value) == IsDigits(PyStrip(value))

\* casco_stats.py:207  _normalize_name
_normalize_name(value) ==
    LET cleaned == PyStrip(ReplaceNbsp(value))
    IN  IF cleaned = <<>> THEN None ELSE cleaned

\* casco_stats.py:212  _normalize_team
_normalize_team(value) == _normalize_name(value)

\* value.replace("|", " ").strip(), then re.sub(r"\s+", " ", ...)
CleanLine(value) ==
    Collapse(PyStrip([i \in 1..Len(value) |-> IF value[i] = "|" THEN " " ELSE value[i]]))

NameAvg(name, avg) == [name |-> name, avg |-> avg]

\* casco_stats.py:216  _split_name_avg: ^(?P<name>.+?)\s+(?P<num>\d{2,4})$
\* the number is the run of digits after the last space of the cleaned cell
_split_name_avg(value) ==
    LET cleaned == CleanLine(value)
        spaces == {i \in 1..Len(cleaned) : cleaned[i] = " "}
    IN  IF spaces = {} THEN NameAvg(None, NoneInt)
        ELSE LET p == CHOOSE i \in spaces : \A j \in spaces : j <= i
                 num == SubSeq(cleaned, p + 1, Len(cleaned))
                 name == PyStrip(SubSeq(cleaned, 1, p - 1))
             IN  IF IsDigits(num) /\ Len(num) \in 2..4
                 THEN NameAvg(IF name = <<>> THEN None ELSE name, _to_int(num))
                 ELSE NameAvg(None, NoneInt)

\* length of the run of digits of s that starts at i
RECURSIVE DigitRun(_, _)
DigitRun(s, i) ==
    IF i <= Len(s) /\ s[i] \in Digits THEN 1 + DigitRun(s, i + 1) ELSE 0

\* casco_stats.py:371  _extract_name_and_value: re.search(r"\b\d{2,4}\b")
\* the number is the first run of two to four digits between word boundaries
_extract_name_and_value(line) ==
    LET cleaned == CleanLine(line)
        starts == {i \in 1..Len(cleaned) :
                      /\ cleaned[i] \in Digits
                      /\ (i = 1 \/ ~IsWordChar(cleaned[i - 1]))
                      /\ DigitRun(cleaned, i) \in 2..4
                      /\ LET after == i + DigitRun(cleaned, i)
                         IN  after > Len(cleaned) \/ ~IsWordChar(cleaned[after])}
    IN  IF starts = {} THEN NameAvg(None, NoneInt)
        ELSE LET first == CHOOSE i \in starts : \A j \in starts : i <= j
                 name == PyStrip(SubSeq(cleaned, 1, first - 1))
             IN  IF name = <<>> \/ ~(\E k \in 1..Len(name) : IsLetter(name[k]))
                 THEN NameAvg(None, NoneInt)
                 ELSE NameAvg(name, _to_int(SubSeq(cleaned, first,
                                                   first + DigitRun(cleaned, first) - 1)))

NameWord == <<"n", "a", "m", "e">>
AvgWord == <<"a", "v", "g">>
AverageWord == <<"a", "v", "e", "r", "a", "g", "e">>

\* casco_stats.py:383  header_keywords
header_keywords ==
    {<<"s", "t", "a", "t", "i", "s", "t", "i", "c", "s">>,
     <<"s", "t", "a", "n", "d", "i", "n", "g", "s">>,
     <<"c", "a", "p", "t", "a", "i", "n">>,
     <<"p", "o", "i", "n", "t", "s">>,
     <<"t", "m", " ", "#">>,
     NameWord,
     AvgWord}

\* casco_stats.py:382  _looks_like_header_text
_looks_like_header_text(line) ==
    \E keyword \in header_keywords : Contains(Lower(line), keyword)

\* " ".join(parts)
RECURSIVE JoinCells(_)
JoinCells(parts) ==
    IF parts = <<>> THEN <<>>
    ELSE IF Len(parts) = 1 THEN parts[1]
    ELSE parts[1] \o <<" ">> \o JoinCells(Tail(parts))

NonEmpty(cell) == cell # <<>>

\* casco_stats.py:169  _looks_like_team_header
_looks_like_team_header(cells) ==
    IF Len(cells) = 1
    THEN LET split == _split_name_avg(cells[1])
         IN  Truthy(split.name) /\ split.avg # NoneInt
             /\ ~PyLess(split.avg, TeamAverageFloor)
    ELSE IF Len(cells) < 2 THEN FALSE
    ELSE IF cells[1] = <<>> THEN FALSE
    ELSE IF _is_numeric(cells[1]) THEN FALSE
    ELSE IF Contains(Lower(cells[1]), NameWord) THEN FALSE
    ELSE IF ~_is_numeric(cells[2]) THEN FALSE
    ELSE SelectSeq(SubSeq(cells, 3, Len(cells)), NonEmpty) = <<>>

\* casco_stats.py:187  _looks_like_bowler_header
_looks_like_bowler_header(cells) ==
    LET joined == JoinCells([i \in 1..Len(SelectSeq(cells, NonEmpty)) |->
                                Lower(SelectSeq(cells, NonEmpty)[i])])
    IN  Contains(joined, NameWord)
        /\ (Contains(joined, AvgWord) \/ Contains(joined, AverageWord))

\* casco_stats.py:192  _looks_like_bowler_row
_looks_like_bowler_row(cells) ==
    IF Len(cells) = 1
    THEN LET split == _split_name_avg(cells[1])
         IN  Truthy(split.name) /\ split.avg # NoneInt
             /\ PyLess(split.avg, TeamAverageFloor)
    ELSE IF Len(cells) < 2 THEN FALSE
    ELSE IF cells[1] = <<>> \/ _is_numeric(cells[1]) THEN FALSE
    ELSE _to_int(cells[2]) # NoneInt

\* casco_stats.py:89-106  the body of the loop over table rows: what one row is
ClassifyRow(row) ==
    LET cells == SelectSeq(row, NonEmpty)
    IN  IF cells = <<>> THEN TableRow("empty", None, NoneInt)
        ELSE LET split == _split_name_avg(cells[1])
             IN  IF _looks_like_team_header(cells)
                 THEN TableRow("team",
                               _normalize_team(IF Truthy(split.name) THEN split.name
                                               ELSE cells[1]),
                               split.avg)
                 ELSE IF _looks_like_bowler_header(cells)
                 THEN TableRow("header", None, NoneInt)
                 ELSE IF _looks_like_bowler_row(cells)
                 THEN IF Len(cells) = 1
                      THEN TableRow("bowler", _normalize_name(split.name), split.avg)
                      ELSE TableRow("bowler", _normalize_name(cells[1]), _to_int(cells[2]))
                 ELSE TableRow("other", None, NoneInt)

\* casco_stats.py:86-115  the table path of _parse_stats_pdf on rows of cells
ParseTableCells(rows) ==
    ParseTableRows([i \in 1..Len(rows) |-> ClassifyRow(rows[i])], None)

\* casco_stats.py:245-252  one stripped, non-blank line of the page text
ClassifyLine(line) ==
    LET cleaned == Collapse(PyStrip([i \in 1..Len(line) |->
                                        IF line[i] = "|" THEN " " ELSE line[i]]))
    IN  IF _looks_like_header_text(cleaned)
        THEN Line(Len(line), "header", None, NoneInt)
        ELSE LET found == _extract_name_and_value(cleaned)
             IN  Line(Len(line), "name", found.name, found.avg)

\* casco_stats.py:244  _parse_stats_text on the lines of a text
ParseTextOfLines(lines) ==
    _parse_stats_text([i \in 1..Len(lines) |-> ClassifyLine(lines[i])])

(***************************************************************************)
(* SpecClassify: both paths of the stats parser on bounded tables whose    *)
(* rows are written in the one-cell and in the several-cell form           *)
(***************************************************************************)
MaxStatRows == 3

\* str(n) for a natural number
RECURSIVE Decimal(_)
Decimal(n) ==
    LET digit == CHOOSE c \in Digits : DigitValue(c) = n % 10
    IN  IF n < 10 THEN <<digit>> ELSE Decimal(n \div 10) \o <<digit>>

Printed(name, numbers, form) == [name |-> name, numbers |-> numbers, form |-> form]

HeaderRow == <<<<"N", "a", "m", "e">>, <<"A", "v", "g">>>>

\* what the PDF prints: a name followed by its numbers, or the column titles
PrintedRows ==
    {Printed(name, numbers, form) :
        name \in {BeerFrame, Gino},
        numbers \in {<<600>>, <<300>>, <<299>>, <<156, 149, 176, 143>>},
        form \in {"one", "cells"}}
    \cup {Printed(None, <<>>, "titles")}

\* the cells pdfplumber extracts for a printed row
CellsOf(printed) ==
    LET numbers == [i \in 1..Len(printed.numbers) |-> Decimal(printed.numbers[i])]
    IN  CASE printed.form = "titles" -> HeaderRow
          [] printed.form = "one" -> <<JoinCells(<<printed.name>> \o numbers)>>
          [] printed.form = "cells" -> <<printed.name>> \o numbers

\* the line of the page text for a printed row: its cells separated by spaces
LineOf(printed) == JoinCells(CellsOf(printed))

ClassifyInit ==
    /\ txn = NoTxn
    /\ stats = <<>>
    /\ matches = <<>>
    /\ fetches = [key \in SourceKeys |-> NoFetch]
    /\ files = [key \in SourceKeys |-> NoFile]
    /\ now = 0
    /\ calls = 0
    /\ \E printed \in SeqsUpTo(PrintedRows, MaxStatRows) :
          last = [op |-> "input", printed |-> printed]

ParseTablePath ==
    /\ last.op = "input"
    /\ last' = [op |-> "table", printed |-> last.printed,
                result |-> ParseTableCells([i \in 1..Len(last.printed) |->
                                               CellsOf(last.printed[i])])]
    /\ UNCHANGED <<stats, matches, fetches, files, now, calls, txn>>

ParseTextPath ==
    /\ last.op = "input"
    /\ last' = [op |-> "text", printed |-> last.printed,
                result |-> ParseTextOfLines([i \in 1..Len(last.printed) |->
                                                LineOf(last.printed[i])])]
    /\ UNCHANGED <<stats, matches, fetches, files, now, calls, txn>>

ClassifyNext == ParseTablePath \/ ParseTextPath

SpecClassify == ClassifyInit /\ [][ClassifyNext]_vars

\* the rows the classification rule gives: the number after the name decides,
\* 300 and above names the team of the rows that follow, below 300 is a bowler
RECURSIVE ContractRows(_, _)
ContractRows(printed, team) ==
    IF printed = <<>> THEN <<>>
    ELSE LET row == Head(printed)
         IN  IF row.form = "titles" THEN ContractRows(Tail(printed), team)
             ELSE IF row.numbers[1] >= 300 THEN ContractRows(Tail(printed), row.name)
             ELSE IF team # None
                  THEN <<[bowler |-> row.name, team |-> team,
                          average |-> IntOf(row.numbers[1])]>>
                       \o ContractRows(Tail(printed), team)
                  ELSE ContractRows(Tail(printed), team)

Emitted(rows) ==
    [i \in 1..Len(rows) |->
        [bowler |-> rows[i].bowler, team |-> rows[i].team, average |-> rows[i].average]]

\* C20: in the table path and in the text-line path a row whose number is at
\* least 300 is a team header and one whose number is below 300 is a bowler
\* row, each bowler row is emitted with the most recent team header before it
\* and none is emitted without one: Beer Frame 600 followed by
\* Gino 156 149 176 143 gives Gino / Beer Frame / 156.
C20_RowsClassifiedByThreshold ==
    last.op \in {"table", "text"}
        => Emitted(last.result) = ContractRows(last.printed, None)

\* what the code does guarantee: the text-line path follows the rule
TextPathFollowsRule ==
    last.op = "text" => Emitted(last.result) = ContractRows(last.printed, None)

\* and so does the table path on rows printed in one cell with one number
\* or in three or more cells
TablePathFollowsRuleOnUnambiguousRows ==
    (/\ last.op = "table"
     /\ \A i \in 1..Len(last.printed) :
           \/ last.printed[i].form = "titles"
           \/ last.printed[i].form = "one" /\ Len(last.printed[i].numbers) = 1
           \/ last.printed[i].form = "cells" /\ Len(last.printed[i].numbers) > 1)
        => Emitted(last.result) = ContractRows(last.printed, None)


(***************************************************************************)
(* Table-to-rows conversion (parser.py, bopo_averages.py)                  *)
(*                                                                         *)
(* A raw table is a sequence of rows, a row a sequence of cells, a cell a  *)
(* string or None.  A row dictionary is the sequence of its (key, value)   *)
(* items in insertion order.                                               *)
(***************************************************************************)
\* parser.py:219, bopo_averages.py:224  _clean_cell (the alphabet has no newline)
_clean_cell(value) == IF value = None THEN <<>> ELSE PyStrip(value)

\* parser.py:213, bopo_averages.py:218  _normalize_header
_normalize_header(value) == PyStrip(Collapse(Lower(_clean_cell(value))))

\* parser.py:157-171  keywords of _looks_like_header
parser_keywords ==
    {<<"t", "e", "a", "m">>, <<"n", "a", "m", "e">>, <<"a", "v", "g">>, <<"a", "v", "e", "r", "a", "g", "e">>, <<"l", "a", "n", "e">>, <<"d", "a", "t", "e">>, <<"t", "i", "m", "e">>, <<"h", "d", "c", "p">>,
     <<"h", "a", "n", "d", "i", "c", "a", "p">>, <<"p", "o", "i", "n", "t", "s">>, <<"h", "o", "m", "e">>, <<"a", "w", "a", "y">>, <<"o", "p", "p", "o", "n", "e", "n", "t">>}

\* bopo_averages.py:214  keywords of _looks_like_header
bopo_averages_keywords ==
    {<<"b", "o", "w", "l", "e", "r">>, <<"t", "e", "a", "m">>, <<"n", "i", "g", "h", "t">>, <<"s", "e", "x">>, <<"a", "v", "e", "r", "a", "g", "e">>, <<"g", "a", "m", "e", "s">>, <<"p", "i", "n", " ", "d", "i", "f", "f">>}

\* parser.py:155, bopo_averages.py:212  _looks_like_header
_looks_like_header(cells, keywords) ==
    LET filled == SelectSeq(cells, NonEmpty)
        joined == JoinCells([i \in 1..Len(filled) |-> Lower(filled[i])])
    IN  \E keyword \in keywords : Contains(joined, keyword)

Item(key, value) == [key |-> key, value |-> value]

\* dict[key] = value: a known key keeps its place and takes the new value
DictPut(dict, key, value) ==
    IF \E i \in 1..Len(dict) : dict[i].key = key
    THEN [i \in 1..Len(dict) |-> IF dict[i].key = key THEN Item(key, value) ELSE dict[i]]
    ELSE Append(dict, Item(key, value))

\* {names[idx]: values[idx] for idx in range(n)}
RECURSIVE ZipDict(_, _, _)
ZipDict(names, values, n) ==
    IF n = 0 THEN <<>>
    ELSE DictPut(ZipDict(names, values, n - 1), names[n], values[n])

\* f"col_{idx}" for idx in range(n)
SyntheticHeader(n) == [i \in 1..n |-> <<"c", "o", "l", "_">> \o Decimal(i - 1)]

CleanCells(raw_row) == [i \in 1..Len(raw_row) |-> _clean_cell(raw_row[i])]
AnyCell(cells) == \E i \in 1..Len(cells) : cells[i] # <<>>

\* parser.py:126  _table_to_rows
parser_table_to_rows(table) ==
    LET cleaned_rows == SelectSeq([i \in 1..Len(table) |-> CleanCells(table[i])], AnyCell)
        headers == {i \in 1..Len(cleaned_rows) :
                       _looks_like_header(cleaned_rows[i], parser_keywords)}
        header_index == IF headers = {} THEN 0
                        ELSE CHOOSE i \in headers : \A j \in headers : i <= j
        max_cols == IF cleaned_rows = <<>> THEN 0
                    ELSE LET widths == {Len(cleaned_rows[i]) : i \in 1..Len(cleaned_rows)}
                         IN  CHOOSE w \in widths : \A v \in widths : v <= w
        header == IF header_index = 0 THEN SyntheticHeader(max_cols)
                  ELSE [idx \in 1..Len(cleaned_rows[header_index]) |->
                           _normalize_header(cleaned_rows[header_index][idx])]
        data == SubSeq(cleaned_rows, header_index + 1, Len(cleaned_rows))
    IN  Ret([j \in 1..Len(data) |->
                ZipDict(header,
                        [idx \in 1..Len(header) |->
                            IF idx <= Len(data[j]) THEN data[j][idx] ELSE <<>>],
                        Len(header))],
            <<>>, "")

NoHeader == <<None>>

\* bopo_averages.py:195  _table_to_rows, header carried through the loop
RECURSIVE BopoTableRows(_, _)
BopoTableRows(table, header) ==
    IF table = <<>> THEN Ret(<<>>, <<>>, "")
    ELSE LET cells == CleanCells(Head(table))
         IN  IF ~AnyCell(cells) THEN BopoTableRows(Tail(table), header)
             ELSE IF header = NoHeader /\ _looks_like_header(cells, bopo_averages_keywords)
             THEN BopoTableRows(Tail(table),
                                [idx \in 1..Len(cells) |-> _normalize_header(cells[idx])])
             ELSE LET names == IF header = NoHeader THEN SyntheticHeader(Len(cells))
                               ELSE header
                  IN  IF Len(cells) > Len(names) THEN Ret(<<>>, <<>>, "IndexError")
                      ELSE LET rest == BopoTableRows(Tail(table), names)
                           IN  IF rest.raised # "" THEN rest
                               ELSE Ret(<<ZipDict(names, cells, Len(cells))>> \o rest.rows,
                                        <<>>, "")

bopo_averages_table_to_rows(table) == BopoTableRows(table, NoHeader)

(***************************************************************************)
(* SpecTable: both conversions applied to bounded raw tables               *)
(***************************************************************************)
MaxTableRows == 3

RawRow(kind, cells) == [kind |-> kind, cells |-> cells]

\* rows of an extracted table: a title line, the column titles, data rows of
\* three, four and two cells, and a row of empty cells
RawRows ==
    {RawRow("title", <<<<"L", "e", "a", "g", "u", "e", " ", "S", "t", "a", "t", "s">>, <<>>, <<>>>>),
     RawRow("header", <<<<"T", "e", "a", "m">>, <<"N", "a", "m", "e">>, <<"A", "v", "g">>>>),
     RawRow("data", <<<<"S", "t", "r", "i", "k", "e", "r", "s">>, <<"A", "l", "e", "x">>, <<"1", "8", "0">>>>),
     RawRow("data", <<<<"S", "t", "r", "i", "k", "e", "r", "s">>, <<"A", "l", "e", "x">>, <<"1", "8", "0">>, <<"1", "2">>>>),
     RawRow("data", <<Gino, <<"1", "5", "6">>>>),
     RawRow("blank", <<<<>>, None, <<>>>>)}

TableInit ==
    /\ txn = NoTxn
    /\ stats = <<>>
    /\ matches = <<>>
    /\ fetches = [key \in SourceKeys |-> NoFetch]
    /\ files = [key \in SourceKeys |-> NoFile]
    /\ now = 0
    /\ calls = 0
    /\ \E table \in SeqsUpTo(RawRows, MaxTableRows) :
          last = [op |-> "table", table |-> table]

CellsOfTable(table) == [i \in 1..Len(table) |-> table[i].cells]

ParserTableToRows ==
    /\ last.op = "table"
    /\ last' = [op |-> "parser", table |-> last.table,
                result |-> parser_table_to_rows(CellsOfTable(last.table))]
    /\ UNCHANGED <<stats, matches, fetches, files, now, calls, txn>>

BopoAveragesTableToRows ==
    /\ last.op = "table"
    /\ last' = [op |-> "bopo_averages", table |-> last.table,
                result |-> bopo_averages_table_to_rows(CellsOfTable(last.table))]
    /\ UNCHANGED <<stats, matches, fetches, files, now, calls, txn>>

TableNext == ParserTableToRows \/ BopoAveragesTableToRows

SpecTable == TableInit /\ [][TableNext]_vars

\* row[key] of a row dictionary
Get(dict, key) == dict[CHOOSE i \in 1..Len(dict) : dict[i].key = key]
HasKey(dict, key) == \E i \in 1..Len(dict) : dict[i].key = key

NonBlank(row) == row.kind # "blank"
IsHeaderRow(row) == row.kind = "header"

\* the rows of a table that the conversion has to emit, each with the names
\* of its columns: the first header row is not emitted, rows after it take
\* its names, rows before it or without it take col_0, col_1, ...
ExpectedRows(table) ==
    LET filled == SelectSeq(table, NonBlank)
        headers == {i \in 1..Len(filled) : IsHeaderRow(filled[i])}
        first == IF headers = {} THEN 0 ELSE CHOOSE i \in headers : \A j \in headers : i <= j
        kept == SelectSeq([i \in 1..Len(filled) |-> [at |-> i, cells |-> filled[i].cells]],
                          LAMBDA r : r.at # first)
    IN  [j \in 1..Len(kept) |->
            [cells |-> CleanCells(kept[j].cells),
             names |-> IF first = 0 \/ kept[j].at < first
                       THEN SyntheticHeader(Len(kept[j].cells))
                       ELSE [idx \in 1..Len(filled[first].cells) |->
                                _normalize_header(filled[first].cells[idx])]]]

\* a row dictionary holds each cell under the name of its column
KeyedBy(dict, expected) ==
    \A idx \in 1..Len(expected.cells) :
        idx <= Len(expected.names)
            => /\ HasKey(dict, expected.names[idx])
               /\ Get(dict, expected.names[idx]).value = expected.cells[idx]

Converted(result, table) ==
    /\ result.raised = ""
    /\ Len(result.rows) = Len(ExpectedRows(table))
    /\ \A j \in 1..Len(result.rows) : KeyedBy(result.rows[j], ExpectedRows(table)[j])

\* C21: _table_to_rows of parser.py and of bopo_averages.py takes the first
\* row matching the header keywords as header and does not emit it, emits
\* every later row keyed by the header names, and emits every row before the
\* header, and every row of a table without header, keyed by col_0, col_1, ...
C21_TableToRows ==
    last.op \in {"parser", "bopo_averages"} => Converted(last.result, last.table)

\* what the code does guarantee: a table whose first filled row is the header
\* and whose rows are no wider than the header is converted as described, so
\* [[Team, Name, Avg], [Strikers, Alex, 180]] gives one row with team Strikers,
\* name Alex, avg 180
HeaderFirstTableToRows ==
    (/\ last.op \in {"parser", "bopo_averages"}
     /\ SelectSeq(last.table, NonBlank) # <<>>
     /\ IsHeaderRow(SelectSeq(last.table, NonBlank)[1])
     /\ \A i \in 1..Len(last.table) : Len(last.table[i].cells) <= 3)
        => Converted(last.result, last.table)

\* and parser.py converts every table without header row
ParserTableWithoutHeader ==
    (/\ last.op = "parser"
     /\ \A i \in 1..Len(last.table) : ~IsHeaderRow(last.table[i]))
        => Converted(last.result, last.table)


(***************************************************************************)
(* Source resolution (bopo_averages.py, bopo_standings.py, bopo_schedule.py)*)
(*                                                                         *)
(* The listing page is a sequence of items: a heading <h2>word</h2>, an    *)
(* anchor <a href="url">label</a>, or a run of WindowChars characters of   *)
(* plain text.  A URL is written absolute (https://host/files/name.ext),   *)
(* rooted (/files/name.ext) or bare (name.ext); None is no URL.            *)
(***************************************************************************)
WindowChars == 20000

Heading(word) == [kind |-> "text", word |-> word]
Filler == [kind |-> "filler"]
Anchor(href, label) == [kind |-> "anchor", href |-> href, label |-> label]

AnchorOpen == <<"<", "a", " ", "h", "r", "e", "f", "=", "\"">>

\* the characters of an item of the page (the filler is counted, not written)
ItemText(item) ==
    CASE item.kind = "text" -> <<"<", "h", "2", ">">> \o item.word \o <<"<", "/", "h", "2", ">">>
      [] item.kind = "anchor" -> AnchorOpen \o item.href \o <<"\"", ">">> \o item.label \o <<"<", "/", "a", ">">>
      [] item.kind = "filler" -> <<>>

ItemChars(item) == IF item.kind = "filler" THEN WindowChars ELSE Len(ItemText(item))

\* s.find(sub) + 1, or 0
IndexOf(s, sub) ==
    LET hits == {i \in 1..(Len(s) - Len(sub) + 1) : SubSeq(s, i, i + Len(sub) - 1) = sub}
    IN  IF hits = {} THEN 0 ELSE CHOOSE i \in hits : \A j \in hits : i <= j

EndsWith(s, suffix) ==
    Len(s) >= Len(suffix) /\ SubSeq(s, Len(s) - Len(suffix) + 1, Len(s)) = suffix

BopoUrl == <<"h", "t", "t", "p", "s", ":", "/", "/", "w", "w", "w", ".", "b", "o", "p", "o", "s", "t", "a", "t", "s", ".", "c", "o", "m">>

\* urljoin(DEFAULT_BOPO_URL, href)
urljoin(href) ==
    IF StartsWith(Lower(href), <<"h", "t", "t", "p", "s", ":", "/", "/">>) \/ StartsWith(Lower(href), <<"h", "t", "t", "p", ":", "/", "/">>) THEN href
    ELSE IF StartsWith(href, <<"/">>) THEN BopoUrl \o href
    ELSE BopoUrl \o <<"/">> \o href

\* href=["'](?P<href>[^"']+\.pdf)["'] with re.IGNORECASE
IsPdfAnchor(item) ==
    item.kind = "anchor" /\ EndsWith(Lower(item.href), <<".", "p", "d", "f">>) /\ Len(item.href) > Len(<<".", "p", "d", "f">>)

\* bopo_averages.py:84  _find_averages_link; bopo_schedule.py:84  _find_schedule_link
RECURSIVE _find_link(_, _)
_find_link(html, keyword) ==
    IF html = <<>> THEN None
    ELSE IF IsPdfAnchor(Head(html)) /\ Contains(Lower(Head(html).label), keyword)
         THEN urljoin(Head(html).href)
         ELSE _find_link(Tail(html), keyword)

\* lowered.find(section_label): offset of the first occurrence, -1 if none
RECURSIVE FindKeyword(_, _, _)
FindKeyword(html, keyword, offset) ==
    IF html = <<>> THEN -1
    ELSE LET at == IndexOf(Lower(ItemText(Head(html))), keyword)
         IN  IF at > 0 THEN offset + at - 1
             ELSE FindKeyword(Tail(html), keyword, offset + ItemChars(Head(html)))

\* the match of (https?://[^\s"'>]+\.pdf|/[^\s"'>]+\.pdf), re.IGNORECASE, in
\* what is left of a written URL `cut` characters in; <<>> if none (a URL of
\* the pages holds no delimiter, and .pdf only at its end)
UrlMatch(href, cut) ==
    LET rest == SubSeq(href, cut + 1, Len(href))
        starts == {p \in 1..Len(rest) :
                      LET tail == Lower(SubSeq(rest, p, Len(rest)))
                      IN  \/ StartsWith(tail, <<"h", "t", "t", "p", "s", ":", "/", "/">>) /\ Len(tail) > Len(<<"h", "t", "t", "p", "s", ":", "/", "/", ".", "p", "d", "f">>)
                          \/ StartsWith(tail, <<"h", "t", "t", "p", ":", "/", "/">>) /\ Len(tail) > Len(<<"h", "t", "t", "p", ":", "/", "/", ".", "p", "d", "f">>)
                          \/ StartsWith(tail, <<"/">>) /\ Len(tail) > Len(<<"/", ".", "p", "d", "f">>)}
    IN  IF ~EndsWith(Lower(rest), <<".", "p", "d", "f">>) \/ starts = {} THEN <<>>
        ELSE SubSeq(rest, CHOOSE p \in starts : \A q \in starts : p <= q, Len(rest))

\* bopo_averages.py:111  _extract_pdf_urls on html[index : index + 20000]
RECURSIVE PdfUrlsInWindow(_, _, _)
PdfUrlsInWindow(html, index, offset) ==
    IF html = <<>> THEN <<>>
    ELSE LET item == Head(html)
             rest == PdfUrlsInWindow(Tail(html), index, offset + ItemChars(item))
             start == offset + Len(AnchorOpen)
             cut == IF index > start THEN index - start ELSE 0
         IN  IF /\ item.kind = "anchor"
                /\ cut < Len(item.href)
                /\ start + Len(item.href) <= index + WindowChars
                /\ UrlMatch(item.href, cut) # <<>>
             THEN <<UrlMatch(item.href, cut)>> \o rest
             ELSE rest

\* bopo_averages.py:116  _pick_preferred_pdf
_pick_preferred_pdf(urls, keyword) ==
    LET named == {i \in 1..Len(urls) : Contains(Lower(urls[i]), keyword)}
    IN  IF named = {} THEN urls[1]
        ELSE urls[CHOOSE i \in named : \A j \in named : i <= j]

\* bopo_averages.py:98  _find_section_pdf_link
_find_section_pdf_link(html, section_label) ==
    LET index == FindKeyword(html, section_label, 0)
        pdf_candidates == PdfUrlsInWindow(html, index, 0)
    IN  IF index = -1 THEN None
        ELSE IF pdf_candidates = <<>> THEN None
        ELSE urljoin(_pick_preferred_pdf(pdf_candidates, section_label))

NoKeyword == <<>>

\* bopo_averages.py:124, bopo_schedule.py:98  _extract_pdf_links
RECURSIVE _extract_pdf_links(_, _)
_extract_pdf_links(html, keyword) ==
    IF html = <<>> THEN <<>>
    ELSE IF /\ IsPdfAnchor(Head(html))
            /\ (keyword = NoKeyword \/ Contains(Lower(Head(html).label), keyword))
         THEN <<urljoin(Head(html).href)>> \o _extract_pdf_links(Tail(html), keyword)
         ELSE _extract_pdf_links(Tail(html), keyword)

Resolved(url, read_page) == [url |-> url, read_page |-> read_page]

\* bopo_averages.py:67  _resolve_averages_url; bopo_standings.py:76  _resolve_standings_url
_resolve_section_url(override, html, keyword) ==
    IF override \notin {None, <<>>} THEN Resolved(override, FALSE)
    ELSE IF html = <<>> THEN Resolved(None, TRUE)
    ELSE IF _find_link(html, keyword) # None THEN Resolved(_find_link(html, keyword), TRUE)
    ELSE IF _find_section_pdf_link(html, keyword) # None
         THEN Resolved(_find_section_pdf_link(html, keyword), TRUE)
    ELSE LET pdf_links == _extract_pdf_links(html, keyword)
         IN  Resolved(IF pdf_links # <<>> THEN pdf_links[1] ELSE None, TRUE)

\* bopo_schedule.py:70  _resolve_schedule_url
_resolve_schedule_url(override, html) ==
    IF override \notin {None, <<>>} THEN Resolved(override, FALSE)
    ELSE IF html = <<>> THEN Resolved(None, TRUE)
    ELSE IF _find_link(html, <<"s", "c", "h", "e", "d", "u", "l", "e">>) # None
         THEN Resolved(_find_link(html, <<"s", "c", "h", "e", "d", "u", "l", "e">>), TRUE)
    ELSE LET pdf_links == _extract_pdf_links(html, NoKeyword)
         IN  Resolved(IF pdf_links # <<>> THEN pdf_links[1] ELSE None, TRUE)

(***************************************************************************)
(* SpecResolve: the three resolvers on bounded listing pages               *)
(***************************************************************************)
MaxItems == 3

Keywords == [averages |-> <<"a", "v", "e", "r", "a", "g", "e", "s">>, standings |-> <<"s", "t", "a", "n", "d", "i", "n", "g", "s">>, schedule |-> <<"s", "c", "h", "e", "d", "u", "l", "e">>]

PageItems ==
    {Heading(<<"A", "v", "e", "r", "a", "g", "e", "s">>), Heading(<<"S", "c", "h", "e", "d", "u", "l", "e">>), Heading(<<"S", "t", "a", "n", "d", "i", "n", "g", "s">>), Filler,
     Anchor(<<"/", "f", "i", "l", "e", "s", "/", "a", "v", "e", "r", "a", "g", "e", "s", ".", "p", "d", "f">>, <<"A", "v", "e", "r", "a", "g", "e", "s">>),
     Anchor(<<"/", "f", "i", "l", "e", "s", "/", "l", "e", "a", "g", "u", "e", ".", "p", "d", "f">>, <<"L", "e", "a", "g", "u", "e">>),
     Anchor(<<"/", "f", "i", "l", "e", "s", "/", "s", "c", "h", "e", "d", "u", "l", "e", ".", "p", "d", "f">>, <<"L", "e", "a", "g", "u", "e">>),
     Anchor(<<"h", "t", "t", "p", "s", ":", "/", "/", "w", "w", "w", ".", "b", "o", "p", "o", "s", "t", "a", "t", "s", ".", "c", "o", "m", "/", "f", "i", "l", "e", "s", "/", "s", "t", "a", "n", "d", "i", "n", "g", "s", ".", "p", "d", "f">>, <<"L", "e", "a", "g", "u", "e">>),
     Anchor(<<"l", "e", "a", "g", "u", "e", ".", "p", "d", "f">>, <<"L", "e", "a", "g", "u", "e">>),
     Anchor(<<"/", "f", "i", "l", "e", "s", "/", "l", "e", "a", "g", "u", "e", ".", "h", "t", "m", "l">>, <<"A", "v", "e", "r", "a", "g", "e", "s">>),
     Anchor(<<"/", "f", "i", "l", "e", "s", "/", "s", "e", "a", "s", "o", "n", ".", "p", "d", "f">>, <<"S", "c", "h", "e", "d", "u", "l", "e">>),
     Anchor(<<"/", "f", "i", "l", "e", "s", "/", "t", "a", "b", "l", "e", ".", "p", "d", "f">>, <<"S", "t", "a", "n", "d", "i", "n", "g", "s">>)}

OverrideUrl == <<"h", "t", "t", "p", "s", ":", "/", "/", "e", "x", "a", "m", "p", "l", "e", ".", "o", "r", "g", "/", "a", "v", "e", "r", "a", "g", "e", "s", ".", "p", "d", "f">>

ResolveInit ==
    /\ txn = NoTxn
    /\ stats = <<>>
    /\ matches = <<>>
    /\ fetches = [key \in SourceKeys |-> NoFetch]
    /\ files = [key \in SourceKeys |-> NoFile]
    /\ now = 0
    /\ calls = 0
    /\ \E html \in SeqsUpTo(PageItems, MaxItems), override \in {None, <<>>, OverrideUrl} :
          /\ (override = OverrideUrl => Len(html) <= 1)
          /\ last = [op |-> "page", html |-> html, override |-> override]

ResolvedBy(kind, result) ==
    [op |-> "resolve", kind |-> kind, html |-> last.html, override |-> last.override,
     url |-> result.url, read_page |-> result.read_page]

ResolveAveragesUrl ==
    /\ last.op = "page"
    /\ last' = ResolvedBy("averages",
                          _resolve_section_url(last.override, last.html, Keywords.averages))
    /\ UNCHANGED <<stats, matches, fetches, files, now, calls, txn>>

ResolveStandingsUrl ==
    /\ last.op = "page"
    /\ last' = ResolvedBy("standings",
                          _resolve_section_url(last.override, last.html, Keywords.standings))
    /\ UNCHANGED <<stats, matches, fetches, files, now, calls, txn>>

ResolveScheduleUrl ==
    /\ last.op = "page"
    /\ last' = ResolvedBy("schedule", _resolve_schedule_url(last.override, last.html))
    /\ UNCHANGED <<stats, matches, fetches, files, now, calls, txn>>

ResolveNext == ResolveAveragesUrl \/ ResolveStandingsUrl \/ ResolveScheduleUrl

SpecResolve == ResolveInit /\ [][ResolveNext]_vars

IsPdfLink(item) == item.kind = "anchor" /\ EndsWith(item.href, <<".", "p", "d", "f">>)

\* the PDF links that follow the first occurrence of the keyword within
\* WindowChars characters, in page order
RECURSIVE LinksAfterKeyword(_, _, _)
LinksAfterKeyword(html, index, offset) ==
    IF html = <<>> THEN <<>>
    ELSE LET rest == LinksAfterKeyword(Tail(html), index, offset + ItemChars(Head(html)))
         IN  IF /\ IsPdfLink(Head(html))
                /\ offset >= index
                /\ offset + ItemChars(Head(html)) <= index + WindowChars
             THEN <<Head(html).href>> \o rest ELSE rest

\* the four tiers of the resolution contract, first match wins
TieredUrl(override, html, keyword) ==
    LET links == SelectSeq(html, IsPdfLink)
        labelled == SelectSeq(links, LAMBDA item : Contains(Lower(item.label), keyword))
        index == FindKeyword(html, keyword, 0)
        window == IF index = -1 THEN <<>> ELSE LinksAfterKeyword(html, index, 0)
        named == SelectSeq(window, LAMBDA url : Contains(Lower(url), keyword))
    IN  IF override \notin {None, <<>>} THEN override
        ELSE IF labelled # <<>> THEN urljoin(labelled[1].href)
        ELSE IF named # <<>> THEN urljoin(named[1])
        ELSE IF window # <<>> THEN urljoin(window[1])
        ELSE IF links # <<>> THEN urljoin(links[1].href)
        ELSE None

\* C22: each of the averages, standings and schedule resolvers returns the
\* override when one is set without reading the page, else the first PDF
\* anchor whose text holds the keyword, else from the 20,000 characters after
\* the first occurrence of the keyword the PDF URL that holds the keyword or
\* failing that the first one, else the first PDF link of the page; it
\* returns None only when the page has no PDF link.
C22_TieredResolution ==
    last.op = "resolve"
        => /\ last.url = TieredUrl(last.override, last.html, Keywords[last.kind])
           /\ (last.override = OverrideUrl => ~last.read_page)
           /\ (last.url = None => SelectSeq(last.html, IsPdfLink) = <<>>)

\* what the code does guarantee: the first two tiers, in all three resolvers
OverrideAndAnchorTextWin ==
    (/\ last.op = "resolve"
     /\ \/ last.override = OverrideUrl
        \/ \E i \in 1..Len(last.html) :
              /\ IsPdfLink(last.html[i])
              /\ Contains(Lower(last.html[i].label), Keywords[last.kind]))
        => /\ last.url = TieredUrl(last.override, last.html, Keywords[last.kind])
           /\ (last.override = OverrideUrl => ~last.read_page)

\* and the schedule resolver returns None only for a page without PDF link
ScheduleFindsAnyPdfLink ==
    (last.op = "resolve" /\ last.kind = "schedule" /\ last.url = None)
        => SelectSeq(last.html, IsPdfLink) = <<>>


(***************************************************************************)
(* No source URL                                                           *)
(***************************************************************************)
BopoQueries == {"get_bopo_averages", "get_bopo_standings", "get_bopo_schedule"}

\* the call observed in obs asked its resolver for the URL and got None
UrlNotFound(obs) ==
    /\ obs.op \in BopoQueries
    /\ ~Truthy(obs.args.url)
    /\ (obs.op = "get_bopo_schedule" => Truthy(obs.args.team_name))

NotFoundCode(op) ==
    CASE op = "get_bopo_averages" -> "averages_url_not_found"
      [] op = "get_bopo_standings" -> "standings_url_not_found"
      [] op = "get_bopo_schedule" -> "schedule_url_not_found"

StatusCodes == {200, 500}
Bodies == {<<"%", "P", "D", "F", "-", "1">>, <<"%", "P", "D">>, <<"<", "h", "t", "m", "l">>, <<" ", "%", "P", "D", "F">>, <<"%", "p", "d", "f", "-", "1">>, <<"xFF", "P", "D", "F">>}
ContentTypes == {PdfType, HtmlType, <<>>}
AllResponses ==
    {Response(status_code, content, content_type) :
        status_code \in StatusCodes, content \in Bodies, content_type \in ContentTypes}

FetchCascoMonday == get_casco_monday_over(AllResponses)

FetchNext == FetchCascoMonday \/ Tick

SpecFetch == Init /\ [][FetchNext]_vars

WentToNetwork(observed) ==
    "fetched" \in DOMAIN observed /\ observed.fetched # NoResponse
FetchFailed(observed) == observed.trace = <<"fetch_pdf">> /\ observed.result.status = "raised"
CarriesTypeAndPreview(observed) ==
    LET payload == observed.fetched.outcome.payload
        content == observed.fetched.response.content
    IN  /\ DOMAIN payload = {"url", "content_type", "preview"}
        /\ payload.content_type = observed.fetched.response.content_type
        /\ Len(payload.preview) = Len(content)
        /\ \A i \in 1..Len(content) : content[i] # "xFF" => payload.preview[i] = content[i]
NothingStored == UNCHANGED <<files, stats, matches, fetches>>

\* C24 as stated: the fetch succeeds exactly when the bytes begin with %PDF,
\* whatever else the response says; a failure carries the declared content type
\* and a preview and leaves cache file, records and fetch state as they were
C24_FetchSucceedsIffMagic ==
    [][WentToNetwork(last') =>
          /\ ~FetchFailed(last') <=> StartsWith(last'.fetched.response.content, PdfMagic)
          /\ FetchFailed(last') => CarriesTypeAndPreview(last') /\ NothingStored]_vars

\* C24: a response with a success status is accepted exactly when its bytes
\* begin with %PDF, whatever content type it declares, and its rejection
\* carries the declared content type and a preview of the bytes; a response
\* with an error status is rejected whatever its bytes.  Either rejection
\* leaves the cached file, the stored records and the fetch state unchanged.
C24_SuccessStatusSucceedsIffMagic ==
    [][WentToNetwork(last') =>
          LET response == last'.fetched.response
          IN  /\ response.status_code >= 400 =>
                    FetchFailed(last') /\ last'.result.error = "HTTPStatusError"
              /\ response.status_code < 400 =>
                    /\ ~FetchFailed(last') <=> StartsWith(response.content, PdfMagic)
                    /\ FetchFailed(last') => CarriesTypeAndPreview(last')
              /\ FetchFailed(last') => NothingStored
              /\ ~FetchFailed(last') => files'[last'.league_key] # NoFile]_vars

\* an HTML page declared application/pdf was rejected with the file cached by
\* an earlier call still in place
C24_Witness ==
    /\ last.op = "get_casco_monday"
    /\ WentToNetwork(last)
    /\ last.fetched.response.status_code = 200
    /\ last.fetched.response.content_type = PdfType
    /\ ~StartsWith(last.fetched.response.content, PdfMagic)
    /\ FetchFailed(last)
    /\ files[last.league_key] # NoFile

(***************************************************************************)
(* BowlingService (service.py): sync_league and the queries that call it   *)
(* through _ensure_league_data.  The resolved URLs, the HTTP responses and  *)
(* the rows the parsers return are chosen with \E.                          *)
(***************************************************************************)
\* leagues of bowling.json (config.py:20  get_league)
UnknownLeague == "tuesday_nowhere"
LeagueArgs == {LeagueKey, UnknownLeague}
get_league(league_key) == IF league_key = LeagueKey THEN [key |-> LeagueKey] ELSE NoRow

\* rows parse_stats_pdf / parse_schedule_pdf return for a document
ParsedStats ==
    {<<>>,
     <<[team_name |-> BeerFrame, player_name |-> Gino, average |-> IntOf(156)]>>,
     <<[team_name |-> BeerFrame, player_name |-> Gino, average |-> IntOf(156)],
       [team_name |-> Oddballs, player_name |-> GinoQ, average |-> IntOf(143)]>>}
ParsedSchedule ==
    {<<>>, <<[match_date |-> Jan9, match_time |-> SixPm, team_a |-> BeerFrame,
              team_b |-> Oddballs]>>}

\* storage/base.py:196  the generated __init__ of the dataclass BowlingFetchState:
\* every field is required
BowlingFetchStateFields ==
    {"league_key", "last_fetch_at", "stats_url", "schedule_url", "standings_url", "file_path"}
BowlingFetchState(kwargs) ==
    IF BowlingFetchStateFields \ DOMAIN kwargs # {}
    THEN [raised |-> "TypeError", state |-> NoFetch]
    ELSE [raised |-> "", state |-> kwargs]

\* fetcher.py:34  safe_fetch_pdf
safe_fetch_pdf(url, response) ==
    IF ~Truthy(url) THEN [raised |-> "", payload |-> [url |-> url], content |-> <<>>]
    ELSE fetch_pdf(url, response)

\* sync_league with file_path passed to BowlingFetchState
Mut_SyncLeaguePassesFilePath(st, league_key, urls, responses, stats_rows, schedule_rows) ==
    LET unchanged(trace, raised, result) ==
            [stats |-> st.stats, matches |-> st.matches, fetches |-> st.fetches,
             trace |-> trace, raised |-> raised, result |-> result]
        stats_pdf == safe_fetch_pdf(urls.stats_url, responses[1])
        schedule_pdf == safe_fetch_pdf(urls.schedule_url, responses[2])
        parsed_stats == IF stats_pdf.content # <<>> THEN stats_rows ELSE <<>>
        parsed_schedule == IF schedule_pdf.content # <<>> THEN schedule_rows ELSE <<>>
        timestamp == IsoFormat(now)
        new_stats == [i \in 1..Len(parsed_stats) |->
                        Stamp(StatRow(league_key, parsed_stats[i].team_name,
                                      parsed_stats[i].player_name, parsed_stats[i].average,
                                      <<>>))]
        new_matches == [i \in 1..Len(parsed_schedule) |->
                          Stamp(MatchRow(league_key, parsed_schedule[i].match_date,
                                         parsed_schedule[i].match_time,
                                         parsed_schedule[i].team_a, parsed_schedule[i].team_b,
                                         <<>>))]
        saved_stats == save_bowling_stats(st.stats, league_key, new_stats)
        saved_matches == save_bowling_matches(st.matches, league_key, new_matches)
        fetch == BowlingFetchState(
                     [league_key |-> league_key, last_fetch_at |-> timestamp,
                      stats_url |-> urls.stats_url, schedule_url |-> urls.schedule_url,
                      standings_url |-> None, file_path |-> None])
        work == <<"resolve_urls", "fetch_stats", "fetch_schedule", "save_stats", "save_matches">>
    IN  IF get_league(league_key) = NoRow
        THEN unchanged(<<>>, "", [status |-> "error", error |-> "league_not_found",
                                  league_key |-> league_key])
        ELSE IF stats_pdf.raised # ""
        THEN unchanged(<<"resolve_urls", "fetch_stats">>, stats_pdf.raised, NoRow)
        ELSE IF schedule_pdf.raised # ""
        THEN unchanged(<<"resolve_urls", "fetch_stats", "fetch_schedule">>,
                       schedule_pdf.raised, NoRow)
        ELSE IF fetch.raised # ""
        THEN [stats |-> saved_stats, matches |-> saved_matches, fetches |-> st.fetches,
              trace |-> work, raised |-> fetch.raised, result |-> NoRow]
        ELSE [stats |-> saved_stats, matches |-> saved_matches,
              fetches |-> upsert_bowling_fetch(st.fetches, fetch.state),
              trace |-> work \o <<"upsert_fetch">>, raised |-> "",
              result |-> [status |-> "ok", league_key |-> league_key,
                          stats_rows |-> Len(new_stats), matches |-> Len(new_matches),
                          stats_url |-> urls.stats_url, schedule_url |-> urls.schedule_url,
                          standings_url |-> None, last_fetch_at |-> timestamp]]
\* service.py:31  BowlingService.sync_league: the tables it leaves, the calls
\* it makes and what it returns or raises
SyncLeague(st, league_key, urls, responses, stats_rows, schedule_rows) ==
    LET unchanged(trace, raised, result) ==
            [stats |-> st.stats, matches |-> st.matches, fetches |-> st.fetches,
             trace |-> trace, raised |-> raised, result |-> result]
        stats_pdf == safe_fetch_pdf(urls.stats_url, responses[1])
        schedule_pdf == safe_fetch_pdf(urls.schedule_url, responses[2])
        parsed_stats == IF stats_pdf.content # <<>> THEN stats_rows ELSE <<>>
        parsed_schedule == IF schedule_pdf.content # <<>> THEN schedule_rows ELSE <<>>
        timestamp == IsoFormat(now)
        new_stats == [i \in 1..Len(parsed_stats) |->
                        Stamp(StatRow(league_key, parsed_stats[i].team_name,
                                      parsed_stats[i].player_name, parsed_stats[i].average,
                                      <<>>))]
        new_matches == [i \in 1..Len(parsed_schedule) |->
                          Stamp(MatchRow(league_key, parsed_schedule[i].match_date,
                                         parsed_schedule[i].match_time,
                                         parsed_schedule[i].team_a, parsed_schedule[i].team_b,
                                         <<>>))]
        saved_stats == save_bowling_stats(st.stats, league_key, new_stats)
        saved_matches == save_bowling_matches(st.matches, league_key, new_matches)
        fetch == BowlingFetchState(
                     [league_key |-> league_key, last_fetch_at |-> timestamp,
                      stats_url |-> urls.stats_url, schedule_url |-> urls.schedule_url,
                      standings_url |-> None])
        work == <<"resolve_urls", "fetch_stats", "fetch_schedule", "save_stats", "save_matches">>
    IN  IF get_league(league_key) = NoRow
        THEN unchanged(<<>>, "", [status |-> "error", error |-> "league_not_found",
                                  league_key |-> league_key])
        ELSE IF stats_pdf.raised # ""
        THEN unchanged(<<"resolve_urls", "fetch_stats">>, stats_pdf.raised, NoRow)
        ELSE IF schedule_pdf.raised # ""
        THEN unchanged(<<"resolve_urls", "fetch_stats", "fetch_schedule">>,
                       schedule_pdf.raised, NoRow)
        ELSE IF fetch.raised # ""
        THEN [stats |-> saved_stats, matches |-> saved_matches, fetches |-> st.fetches,
              trace |-> work, raised |-> fetch.raised, result |-> NoRow]
        ELSE [stats |-> saved_stats, matches |-> saved_matches,
              fetches |-> upsert_bowling_fetch(st.fetches, fetch.state),
              trace |-> work \o <<"upsert_fetch">>, raised |-> "",
              result |-> [status |-> "ok", league_key |-> league_key,
                          stats_rows |-> Len(new_stats), matches |-> Len(new_matches),
                          stats_url |-> urls.stats_url, schedule_url |-> urls.schedule_url,
                          standings_url |-> None, last_fetch_at |-> timestamp]]

\* service.py:156  _ensure_league_data
_ensure_league_data(st, league_key, urls, responses, stats_rows, schedule_rows) ==
    IF get_league(league_key) = NoRow \/ ~BowlingService_should_refresh(st.fetches, league_key)
    THEN [stats |-> st.stats, matches |-> st.matches, fetches |-> st.fetches,
          trace |-> <<>>, raised |-> "", result |-> NoRow]
    ELSE SyncLeague(st, league_key, urls, responses, stats_rows, schedule_rows)

Store == [stats |-> stats, matches |-> matches, fetches |-> fetches]
\* what _resolve_league_urls gives, the responses to the two document fetches
\* (at most one of them a failure) and the rows the parsers return
SyncInputs ==
    [urls : [stats_url : {UrlA}, schedule_url : {None, UrlB}],
     responses : {pair \in [1..2 -> FetchResponses] :
                     \E i \in 1..2 : fetch_pdf(UrlA, pair[i]).raised = ""},
     stats_rows : ParsedStats, schedule_rows : ParsedSchedule]
ServiceObserved(op, league_key, args, input, done, rows) ==
    [op |-> op, league_key |-> league_key, args |-> args, input |-> input,
     trace |-> done.trace, raised |-> done.raised, result |-> done.result, rows |-> rows]

\* service.py:31  a call of sync_league
sync_league ==
    /\ UNCHANGED <<txn, files, now>>
    /\ calls < MaxCalls
    /\ calls' = calls + 1
    /\ \E league_key \in LeagueArgs, input \in SyncInputs :
          LET done == SyncLeague(Store, league_key, input.urls, input.responses,
                                 input.stats_rows, input.schedule_rows)
          IN  /\ stats' = done.stats
              /\ matches' = done.matches
              /\ fetches' = done.fetches
              /\ last' = ServiceObserved("sync_league", league_key, <<>>, input, done, <<>>)

\* service.py:110  team_stats
team_stats ==
    /\ UNCHANGED <<txn, files, now>>
    /\ calls < MaxCalls
    /\ calls' = calls + 1
    /\ \E league_key \in LeagueArgs, team_name \in {BeerFrame, Oddballs}, input \in SyncInputs :
          LET done == _ensure_league_data(Store, league_key, input.urls, input.responses,
                                          input.stats_rows, input.schedule_rows)
          IN  /\ stats' = done.stats
              /\ matches' = done.matches
              /\ fetches' = done.fetches
              /\ last' = ServiceObserved("team_stats", league_key, <<team_name>>, input, done,
                            IF done.raised # "" THEN <<>>
                            ELSE list_bowling_stats(done.stats, league_key, team_name, None))

\* service.py:115  player_stats
player_stats ==
    /\ UNCHANGED <<txn, files, now>>
    /\ calls < MaxCalls
    /\ calls' = calls + 1
    /\ \E league_key \in LeagueArgs, player_name \in {Gino, GinoQ}, input \in SyncInputs :
          LET done == _ensure_league_data(Store, league_key, input.urls, input.responses,
                                          input.stats_rows, input.schedule_rows)
          IN  /\ stats' = done.stats
              /\ matches' = done.matches
              /\ fetches' = done.fetches
              /\ last' = ServiceObserved("player_stats", league_key, <<player_name>>, input,
                            done,
                            IF done.raised # "" THEN <<>>
                            ELSE list_bowling_stats(done.stats, league_key, None, player_name))

\* service.py:120  list_matches
list_matches ==
    /\ UNCHANGED <<txn, files, now>>
    /\ calls < MaxCalls
    /\ calls' = calls + 1
    /\ \E league_key \in LeagueArgs, team_name \in {None, BeerFrame}, input \in SyncInputs :
          LET done == _ensure_league_data(Store, league_key, input.urls, input.responses,
                                          input.stats_rows, input.schedule_rows)
          IN  /\ stats' = done.stats
              /\ matches' = done.matches
              /\ fetches' = done.fetches
              /\ last' = ServiceObserved("list_matches", league_key, <<team_name>>, input, done,
                            IF done.raised # "" THEN <<>>
                            ELSE list_bowling_matches(done.matches, league_key, team_name,
                                                      None, None))

ServiceInit ==
    /\ txn = NoTxn
    /\ stats = <<>>
    /\ matches = <<>>
    /\ fetches = [key \in RefreshKeys |-> NoFetch]
    /\ files = [key \in RefreshKeys |-> NoFile]
    /\ now = 0
    /\ calls = 0
    /\ last = [op |-> "init"]

ServiceNext == sync_league \/ team_stats \/ player_stats \/ list_matches \/ Tick

SpecService == ServiceInit /\ [][ServiceNext]_vars

\* a step that is a call of sync_league on the configured league whose two
\* documents were fetched
SyncedConfigured(observed) ==
    /\ observed.op = "sync_league"
    /\ observed.league_key = LeagueKey
    /\ safe_fetch_pdf(observed.input.urls.stats_url, observed.input.responses[1]).raised = ""
    /\ safe_fetch_pdf(observed.input.urls.schedule_url,
                      observed.input.responses[2]).raised = ""
Documents(observed) ==
    [stats_rows |-> IF Truthy(observed.input.urls.stats_url)
                    THEN observed.input.stats_rows ELSE <<>>,
     schedule_rows |-> IF Truthy(observed.input.urls.schedule_url)
                       THEN observed.input.schedule_rows ELSE <<>>]
ServiceQueries == {"team_stats", "player_stats", "list_matches"}

\* C25: sync_league on a configured league returns ok with the numbers of
\* parsed rows, has replaced the league's stats and matches and recorded the
\* fetch state with the returned last_fetch_at, and a query that follows at
\* once returns the saved rows without syncing again
C25_SyncLeagueOkAndRecorded ==
    [][/\ (calls' = calls + 1 /\ SyncedConfigured(last')) =>
             /\ last'.raised = ""
             /\ last'.result.status = "ok"
             /\ last'.result.stats_rows = Len(Documents(last').stats_rows)
             /\ last'.result.matches = Len(Documents(last').schedule_rows)
             /\ Len(list_bowling_stats(stats', LeagueKey, None, None))
                    = Len(Documents(last').stats_rows)
             /\ Len(list_bowling_matches(matches', LeagueKey, None, None, None))
                    = Len(Documents(last').schedule_rows)
             /\ fetches'[LeagueKey] # NoFetch
             /\ fetches'[LeagueKey].last_fetch_at = last'.result.last_fetch_at
       /\ (calls' = calls + 1 /\ "op" \in DOMAIN last /\ last.op = "sync_league"
             /\ SyncedConfigured(last) /\ last'.op \in ServiceQueries
             /\ last'.league_key = LeagueKey) =>
             /\ last'.trace = <<>>
             /\ last'.raised = ""
             /\ UNCHANGED <<stats, matches, fetches>>]_vars

\* what sync_league does on a configured league whose documents were fetched:
\* both tables hold the parsed rows of the league, then the call raises
\* TypeError and no fetch state is recorded; an unknown league is an error
\* result that changes nothing
SyncLeagueSavesThenRaises ==
    [][(calls' = calls + 1 /\ last'.op = "sync_league") =>
          /\ SyncedConfigured(last') =>
                /\ last'.raised = "TypeError"
                /\ Len(list_bowling_stats(stats', LeagueKey, None, None))
                       = Len(Documents(last').stats_rows)
                /\ Len(list_bowling_matches(matches', LeagueKey, None, None, None))
                       = Len(Documents(last').schedule_rows)
                /\ fetches' = fetches
          /\ last'.league_key = UnknownLeague =>
                /\ last'.result = [status |-> "error", error |-> "league_not_found",
                                   league_key |-> UnknownLeague]
                /\ UNCHANGED <<stats, matches, fetches>>]_vars

\* no call ever records a fetch state for a league, so every query syncs again
LeagueFetchNeverRecorded == fetches[LeagueKey] = NoFetch

\* C25 refuted: sync_league fetched both documents of the configured league,
\* saved a parsed stat row and raised
C25_SyncLeagueRaises ==
    /\ last.op = "sync_league"
    /\ SyncedConfigured(last)
    /\ last.raised = "TypeError"
    /\ Len(stats) > 0
    /\ fetches[LeagueKey] = NoFetch

(***************************************************************************)
(* Fetch state and records (Spec)                                          *)
(***************************************************************************)
Saves == {"save_stats", "save_matches"}
Called(observed) == "trace" \in DOMAIN observed
WroteFetchState(key) == fetches'[key] # fetches[key]
StoredUnder(key) ==
    Len(list_bowling_stats(stats, key, None, None))
        + Len(list_bowling_matches(matches, key, None, None, None))

\* C26: a fetch state is written only by a call that also replaced the key's
\* records from the document it fetched, and a cache hit of get_casco_monday
\* is answered from records that a refresh has saved
C26_FetchStateWrittenWithRecords ==
    [][(calls' = calls + 1 /\ Called(last')) =>
          /\ \A key \in SourceKeys :
                WroteFetchState(key) =>
                    /\ Range(last'.trace) \cap Saves # {}
                    /\ key = "casco_monday_bayside" =>
                          _load_cached_schedule(matches', key, None) = files'[key].schedule
          /\ (last'.op = "get_casco_monday" /\ last'.result.status = "ok"
                /\ last'.result.cached) =>
                StoredUnder(last'.league_key) > 0]_vars

\* what holds: every query but get_casco_monday_team_summary writes the fetch
\* state only in a call that fetched the document and saved its records
OtherQueriesWriteFetchStateWithRecords ==
    [][(calls' = calls + 1 /\ Called(last')
          /\ last'.op # "get_casco_monday_team_summary") =>
          \A key \in SourceKeys :
              WroteFetchState(key) =>
                  /\ key = last'.league_key
                  /\ last'.trace[1] = "fetch_pdf"
                  /\ Range(last'.trace) \cap Saves # {}
                  /\ last'.trace[Len(last'.trace)] = "upsert_fetch"]_vars

\* C26 refuted: get_casco_monday answered a cache hit with empty lists; the
\* fetch state was written by get_casco_monday_team_summary, no record is stored
C26_CacheHitWithoutRecords ==
    /\ last.op = "get_casco_monday"
    /\ last.result.status = "ok"
    /\ last.result.cached
    /\ last.args.team_name = None
    /\ last.result.rows = <<>> /\ last.result.schedule = <<>>
    /\ files[last.league_key] # NoFile
    /\ files[last.league_key].schedule # <<>>
    /\ StoredUnder(last.league_key) = 0

(***************************************************************************)
(* get_bopo_schedule called for different teams of one season document,    *)
(* the model returning the matches of the document that include the team   *)
(* it is asked for                                                          *)
(***************************************************************************)
Splits == <<"S", "p", "l", "i", "t", "s">>
ScheduleTeams == {BeerFrame, Oddballs, Splits}

\* the matches printed in the season's schedule PDF
SeasonDocs ==
    {[text |-> <<Line(40, "name", BeerFrame, NoneInt)>>,
      matches |-> <<Match(Jan2, SixPm, BeerFrame, Oddballs),
                    Match(Jan9, SixPm, Oddballs, Splits)>>]}

ScheduleOfTeam == get_bopo_schedule_with(ScheduleTeams, SeasonDocs)

ScheduleNext == ScheduleOfTeam \/ Tick

SpecSchedule == Init /\ [][ScheduleNext]_vars

ScheduleCacheHit(observed) ==
    /\ Called(observed)
    /\ observed.op = "get_bopo_schedule"
    /\ observed.result.status = "ok"
    /\ observed.result.cached
FreshExtraction(observed) ==
    TeamScheduleOfDoc(files[observed.league_key], observed.args.team_name, "rows").rows

\* C27: the matches a cache hit returns for a team are the matches a fresh
\* extraction for that team from the cached document returns
C27_CacheHitEqualsFreshExtraction ==
    [][(calls' = calls + 1 /\ ScheduleCacheHit(last')) =>
          SameBag(last'.result.schedule, FreshExtraction(last'))]_vars

\* what holds: a cache hit returns the stored matches that name the team, all
\* of them matches of the team whose query filled the cache
CacheHitFiltersStoredMatches ==
    [][(calls' = calls + 1 /\ ScheduleCacheHit(last')) =>
          /\ last'.result.schedule
                = _filter_matches(_load_cached_matches(matches, last'.league_key).rows,
                                  last'.args.team_name)
          /\ \A i \in 1..Len(last'.result.schedule) :
                last'.result.schedule[i] \in Range(FreshExtraction(last'))
          /\ UNCHANGED <<stats, matches, fetches, files>>]_vars

\* C27 refuted: a cache hit for a team returned no match although the cached
\* document holds a match of that team
C27_CacheHitLosesMatches ==
    /\ ScheduleCacheHit(last)
    /\ last.result.schedule = <<>>
    /\ FreshExtraction(last) # <<>>

(***************************************************************************)
(* The cached flag of ok results (Spec)                                    *)
(***************************************************************************)
OkResult(observed) == Called(observed) /\ observed.result.status = "ok"
FetchedDocument(observed) == "fetch_pdf" \in Range(observed.trace)

\* C28: in every ok result of an inbound query, cached is true exactly when
\* the call fetched no document
C28_CachedIffNoFetch ==
    [][(calls' = calls + 1 /\ OkResult(last')) =>
          (last'.result.cached <=> ~FetchedDocument(last'))]_vars

\* what holds: the flag is exact in the five queries that decide by the fetch
\* state; in get_casco_monday_team_summary a true flag still means that no
\* document was fetched, and the flag is the refresh check on the fetch state
\* read at the start of the call
CachedFlagOfEachQuery ==
    [][(calls' = calls + 1 /\ OkResult(last')) =>
          /\ last'.op # "get_casco_monday_team_summary" =>
                (last'.result.cached <=> ~FetchedDocument(last'))
          /\ last'.op = "get_casco_monday_team_summary" =>
                /\ last'.result.cached => ~FetchedDocument(last')
                /\ last'.result.cached
                      <=> (~last'.args.force_refresh
                             /\ ~_should_refresh(get_bowling_fetch(fetches, last'.league_key),
                                                 last'.args.url))]_vars

\* C28 refuted: get_casco_monday_team_summary answered from the cached
\* document, without a fetch, and reported cached = false
C28_ReadFromCacheReportedUncached ==
    /\ OkResult(last)
    /\ last.op = "get_casco_monday_team_summary"
    /\ ~FetchedDocument(last)
    /\ last.trace[1] = "read_file"
    /\ ~last.result.cached

(***************************************************************************)
(* Single-shot budget and chunked calls (SpecParse)                        *)
(***************************************************************************)
\* casco_stats.py:399  limit of _truncate_text
SingleShotBudget == 20000

ModelCalls(trace) == Positions(trace, "llm_once") \cup Positions(trace, "llm_chunk")
SingleShotEmpty(once) ==
    LlmRaises(once) = "" /\ _filter_bowler_rows(_extract_stats_with_llm_once(once)) = <<>>

\* C29: chunked model calls are made only when the single-shot attempt gave no
\* rows and the text exceeds the single-shot budget; when the text fits the
\* budget and the single-shot attempt gives no rows the model is called once
C29_ChunksOnlyBeyondBudget ==
    (last.op = "_parse_stats_pdf" /\ ModelCalls(last.result.trace) # {}) =>
        LET trace == last.result.trace
            text == last.doc.text
        IN  /\ Positions(trace, "llm_chunk") # {} =>
                  SingleShotEmpty(last.once) /\ TextLen(text) > SingleShotBudget
            /\ (SingleShotEmpty(last.once) /\ TextLen(text) <= SingleShotBudget) =>
                  Cardinality(ModelCalls(trace)) = 1

\* what holds: chunked calls are made exactly when the single-shot attempt gave
\* no bowler row, whatever the length of the text: one call per chunk of
\* _chunk_text(text, 8000) up to the first that raises, which is one call on
\* the whole text when the text is no longer than a chunk
ChunksWheneverSingleShotEmpty ==
    (last.op = "_parse_stats_pdf" /\ ModelCalls(last.result.trace) # {}) =>
        LET trace == last.result.trace
            chunks == _chunk_text(last.doc.text, StatsChunkLimit)
        IN  /\ Cardinality(Positions(trace, "llm_once")) = 1
            /\ Positions(trace, "llm_chunk") # {} <=> SingleShotEmpty(last.once)
            /\ SingleShotEmpty(last.once) =>
                  /\ Cardinality(Positions(trace, "llm_chunk"))
                        = IF LlmRaises(last.chunk) # "" THEN 1 ELSE Len(chunks)
                  /\ TextLen(last.doc.text) <= StatsChunkLimit => chunks = <<last.doc.text>>

\* C29 refuted: a text within the budget, an empty single-shot reply, and the
\* model called again on the same text
C29_SecondCallWithinBudget ==
    /\ last.op = "_parse_stats_pdf"
    /\ SingleShotEmpty(last.once)
    /\ TextLen(last.doc.text) <= StatsChunkLimit
    /\ Cardinality(Positions(last.result.trace, "llm_once")) = 1
    /\ Cardinality(Positions(last.result.trace, "llm_chunk")) = 1

(***************************************************************************)
(* _chunk_text on texts of characters.  The three copies (casco_stats.py,  *)
(* bopo_standings.py, casco_monday.py) differ in the default limit only.   *)
(***************************************************************************)
LF == "\n"

\* str.splitlines() on a text whose only line boundary is "\n"
RECURSIVE splitlines(_)
splitlines(text) ==
    IF text = <<>> THEN <<>>
    ELSE LET ends == {i \in 1..Len(text) : text[i] = LF}
         IN  IF ends = {} THEN <<text>>
             ELSE LET i == CHOOSE i \in ends : \A j \in ends : i <= j
                  IN  <<SubSeq(text, 1, i - 1)>> \o splitlines(SubSeq(text, i + 1, Len(text)))

\* "\n".join(lines)
RECURSIVE JoinLines(_)
JoinLines(lines) ==
    IF lines = <<>> THEN <<>>
    ELSE IF Len(lines) = 1 THEN lines[1]
    ELSE lines[1] \o <<LF>> \o JoinLines(Tail(lines))

\* casco_stats.py:411-420  the loop of _chunk_text: the lists of lines it joins
RECURSIVE ChunkLoop(_, _, _, _)
ChunkLoop(lines, current, current_len, limit) ==
    IF lines = <<>> THEN (IF current # <<>> THEN <<current>> ELSE <<>>)
    ELSE LET line == Head(lines)
         IN  IF current_len + Len(line) + 1 > limit /\ current # <<>>
             THEN <<current>> \o ChunkLoop(Tail(lines), <<line>>, Len(line) + 1, limit)
             ELSE ChunkLoop(Tail(lines), Append(current, line),
                            current_len + Len(line) + 1, limit)

\* pieces of limit characters each, wherever the lines end
RECURSIVE Mut_ChunkByCharacters(_, _)
Mut_ChunkByCharacters(text, limit) ==
    IF Len(text) <= limit THEN <<text>>
    ELSE <<SubSeq(text, 1, limit)>>
             \o Mut_ChunkByCharacters(SubSeq(text, limit + 1, Len(text)), limit)
\* casco_stats.py:405  _chunk_text on characters
ChunkText(text, limit) ==
    IF Len(text) <= limit THEN <<text>>
    ELSE LET joined == ChunkLoop(splitlines(text), <<>>, 0, limit)
         IN  [i \in 1..Len(joined) |-> JoinLines(joined[i])]

MaxChars == 6
TextChars == {"a", "b", LF}
ChunkLimits == {2, 4}

ChunkInit ==
    /\ txn = NoTxn
    /\ stats = <<>>
    /\ matches = <<>>
    /\ fetches = [key \in SourceKeys |-> NoFetch]
    /\ files = [key \in SourceKeys |-> NoFile]
    /\ now = 0
    /\ calls = 0
    /\ \E text \in SeqsUpTo(TextChars, MaxChars), limit \in ChunkLimits :
          last = [op |-> "text", text |-> text, limit |-> limit]

ChunkTextCall ==
    /\ last.op = "text"
    /\ last' = [op |-> "_chunk_text", text |-> last.text, limit |-> last.limit,
                chunks |-> ChunkText(last.text, last.limit)]
    /\ UNCHANGED <<stats, matches, fetches, files, now, calls, txn>>

ChunkNext == ChunkTextCall

SpecChunk == ChunkInit /\ [][ChunkNext]_vars

RECURSIVE Flatten(_)
Flatten(lists) == IF lists = <<>> THEN <<>> ELSE Head(lists) \o Flatten(Tail(lists))

\* the lines a chunk was joined from: chunk.split("\n")
RECURSIVE LinesOfChunk(_)
LinesOfChunk(chunk) ==
    LET ends == {i \in 1..Len(chunk) : chunk[i] = LF}
    IN  IF ends = {} THEN <<chunk>>
        ELSE LET i == CHOOSE i \in ends : \A j \in ends : i <= j
             IN  <<SubSeq(chunk, 1, i - 1)>> \o LinesOfChunk(SubSeq(chunk, i + 1, Len(chunk)))

\* the lines of the chunks, one chunk after the other, are the lines of the
\* text: every line is whole in exactly one chunk and the order is kept
LinesKept(text, chunks) ==
    Flatten([i \in 1..Len(chunks) |-> LinesOfChunk(chunks[i])]) = splitlines(text)
ManyLinesFit(chunks, limit) ==
    \A i \in 1..Len(chunks) : Len(LinesOfChunk(chunks[i])) > 1 => Len(chunks[i]) <= limit
Chunked(observed) == observed.op = "_chunk_text"

\* C30 as stated: lines whole, each in exactly one chunk and in order; no empty
\* chunk when the text is longer than the limit; a chunk of several lines is
\* at most limit long; a text within the limit is its own single chunk
C30_ChunksWholeLinesNoneEmpty ==
    Chunked(last) =>
        IF Len(last.text) <= last.limit THEN last.chunks = <<last.text>>
        ELSE /\ LinesKept(last.text, last.chunks)
             /\ \A i \in 1..Len(last.chunks) : last.chunks[i] # <<>>
             /\ ManyLinesFit(last.chunks, last.limit)

\* C30: _chunk_text never splits a line: a text within the limit is returned
\* as its own single chunk; for a longer text every line is whole in exactly
\* one chunk, in the original order, a chunk of several lines is at most
\* limit characters long, and a chunk is empty only where it holds one empty
\* line of the text, so no chunk is empty when the text has no empty line
C30_ChunksWholeLines ==
    Chunked(last) =>
        IF Len(last.text) <= last.limit THEN last.chunks = <<last.text>>
        ELSE /\ LinesKept(last.text, last.chunks)
             /\ ManyLinesFit(last.chunks, last.limit)
             /\ last.chunks # <<>>
             /\ <<>> \notin Range(splitlines(last.text)) =>
                   \A i \in 1..Len(last.chunks) : last.chunks[i] # <<>>

\* a text longer than the limit cut into chunks, one of them of two lines and
\* one of them a line longer than the limit
C30_Witness ==
    /\ Chunked(last)
    /\ Len(last.text) > last.limit
    /\ Len(last.chunks) >= 2
    /\ \E i \in 1..Len(last.chunks) : Len(LinesOfChunk(last.chunks[i])) = 2
    /\ \E i \in 1..Len(last.chunks) : Len(last.chunks[i]) > last.limit

\* the empty chunk: an empty line that starts a chunk and is followed by a
\* line that does not fit with it
C30_EmptyChunk ==
    /\ Chunked(last)
    /\ Len(last.text) > last.limit
    /\ \E i \in 1..Len(last.chunks) : last.chunks[i] = <<>>

====
